---- MODULE Spec2Model ----
(***************************************************************************)
(* Model of the invoice extraction pipeline: the Azure Document            *)
(* Intelligence client (azure_di.py: submit / retry / poll), the batch     *)
(* driver (invoice_handler/pipeline.py: process_path,                      *)
(* process_path_with_llm, _move_to_processed) and local discovery          *)
(* (invoice_handler/discovery.py).                                         *)
(*                                                                         *)
(* The batch driver imports AzureDIClient from invoice_handler/azure_di.py *)
(* and passes it a locale hint; the submit/retry/poll protocol modelled    *)
(* here is the one of azure_di.py, on which the hint has no influence.     *)
(***************************************************************************)
EXTENDS Integers, Sequences, FiniteSets, TLC

VARIABLES
    gw,         \* the analyze call in progress (SpecGateway) or the last one made (Spec)
    fs,         \* the local file system below the input directory: path -> content
    bulk_size,  \* settings.bulk_size
    call,       \* the batch driver invocation in progress or last returned
    hist,       \* history kept for the properties (not program state)
    mp          \* the mapper or normalizer call: its input and its result (SpecMapper)

vars == <<gw, fs, bulk_size, call, hist, mp>>

\* No mapper call is being followed.
IdleMapper == [pc |-> "idle"]

(***************************************************************************)
(* Analysis gateway: AzureDIClient._post_analyze / _poll_operation         *)
(***************************************************************************)

\* azure_di.py:25  max_retries: int = 3 (no caller passes another value)
DefaultMaxRetries == 3

\* azure_di.py:15  for _ in range(60)
MaxPolls == 60

\* azure_di.py:22  await asyncio.sleep(1)
PollInterval == 1

\* The Retry-After value (seconds) the provider sends in the model; it differs
\* from every 2 ** attempt so that the two sleep sources can be told apart.
ProviderRetryAfter == 7

\* azure_di.py:20  terminal operation states
TerminalStates == {"succeeded", "failed", "partiallySucceeded"}

OperationStates == TerminalStates \cup {"running"}

\* What a POST to ...:analyze can come back with.  kind "exception" is any
\* exception of client.post other than HTTPStatusError (connect error, request
\* timeout); its status is 0.  Status codes: accepted (200, 202), another 2xx,
\* a redirect, rate-limited, server error.  retry_after is the Retry-After
\* header: <<>> when absent, <<seconds>> when present (the provider sends a
\* number of seconds).
SubmitResponses ==
    [kind : {"exception"}, status : {0}, retry_after : {<<>>},
     op_location : {FALSE}, json_body : {FALSE}]
    \cup
    [kind : {"http"}, status : {429, 500, 302},
     retry_after : {<<>>, <<ProviderRetryAfter>>},
     op_location : {FALSE}, json_body : {FALSE}]
    \cup
    [kind : {"http"}, status : {200, 202, 204}, retry_after : {<<>>},
     op_location : BOOLEAN, json_body : BOOLEAN]

\* What a GET of the operation URL can come back with.
PollResponses ==
    [kind : {"exception"}, status : {0}, retry_after : {<<>>}, op_state : {"none"}]
    \cup
    [kind : {"http"}, status : {429, 500},
     retry_after : {<<>>, <<ProviderRetryAfter>>}, op_state : {"none"}]
    \cup
    [kind : {"http"}, status : {200}, retry_after : {<<>>}, op_state : OperationStates]

\* httpx Response.raise_for_status(): raises HTTPStatusError unless 2xx.
raise_for_status(status) == status \notin 200..299

retry_after_seconds_ignoring_header(resp, attempt) == 2 ^ attempt

\* azure_di.py:42 and :59  int(headers.get("Retry-After", 2 ** attempt))
retry_after_seconds(resp, attempt) ==
    IF resp.retry_after # <<>> THEN resp.retry_after[1] ELSE 2 ^ attempt

\* State of one _post_analyze call before its first request.
\*   pc          where the coroutine is suspended: "post" (client.post),
\*               "retry_sleep" (asyncio.sleep(retry_after)), "get" (client.get),
\*               "poll_sleep" (asyncio.sleep(1)), or finished: "returned", "raised"
\*   attempt     the loop variable of `for attempt in range(max_retries)`
\*   last_error  the local of that name
\*   polls       GET requests issued for the current operation handle
\*   submits, handles, retry_sleeps   POST requests / accepted handles / back-off sleeps so far
\*   n429        POST requests answered 429 so far
\*   sleep_for   duration of the sleep in progress (0 when not sleeping)
\*   status, hdr, op_state   status code, Retry-After and operation state of the last response
\*   err, payload  the exception raised / the value returned
GatewayStart(max_retries) ==
    [pc |-> "post", max_retries |-> max_retries, attempt |-> 0,
     last_error |-> "none", polls |-> 0,
     submits |-> 0, handles |-> 0, retry_sleeps |-> 0, n429 |-> 0, sleep_for |-> 0,
     status |-> 0, hdr |-> <<>>, op_state |-> "none",
     err |-> "none", payload |-> "none"]

Raise(g, e) == [g EXCEPT !.pc = "raised", !.err = e, !.sleep_for = 0]

Return(g, p) == [g EXCEPT !.pc = "returned", !.payload = p, !.sleep_for = 0]

\* asyncio.sleep(retry_after) of azure_di.py:45 and :61
Backoff(g, resp) ==
    [g EXCEPT !.pc = "retry_sleep",
              !.sleep_for = retry_after_seconds(resp, g.attempt),
              !.retry_sleeps = @ + 1]

except_HTTPStatusError_any_status(g0, resp) ==
    LET g == [g0 EXCEPT !.last_error = "HTTPStatusError"]
    IN  IF g.attempt < g.max_retries - 1
        THEN Backoff(g, resp)
        ELSE Raise(g, "HTTPStatusError")

\* azure_di.py:56-63  except httpx.HTTPStatusError as e
except_HTTPStatusError(g0, resp) ==
    LET g == [g0 EXCEPT !.last_error = "HTTPStatusError"]
    IN  IF resp.status = 429 /\ g.attempt < g.max_retries - 1
        THEN Backoff(g, resp)
        ELSE Raise(g, "HTTPStatusError")

\* azure_di.py:48-55  the accepted response: poll the handle, or fall back to the body
after_accept(g, resp) ==
    IF resp.op_location
    THEN [g EXCEPT !.pc = "get", !.polls = 0, !.handles = @ + 1]
    ELSE IF resp.json_body THEN Return(g, "body")
         ELSE Raise(g, "RuntimeError")

post_response_retry_last(g0, resp) ==
    LET g == [g0 EXCEPT !.submits = @ + 1, !.status = resp.status,
                        !.hdr = resp.retry_after, !.op_state = "none",
                        !.n429 = IF resp.status = 429 THEN @ + 1 ELSE @]
    IN  IF resp.kind = "exception" THEN Raise(g, "TransportError")
        ELSE IF resp.status \notin {200, 202}
             THEN IF resp.status = 429 /\ g.attempt < g.max_retries
                  THEN Backoff(g, resp)
                  ELSE IF raise_for_status(resp.status)
                       THEN except_HTTPStatusError(g, resp)
                       ELSE after_accept(g, resp)
             ELSE after_accept(g, resp)

post_response_no_retry(g0, resp) ==
    LET g == [g0 EXCEPT !.submits = @ + 1, !.status = resp.status,
                        !.hdr = resp.retry_after, !.op_state = "none",
                        !.n429 = IF resp.status = 429 THEN @ + 1 ELSE @]
    IN  IF resp.kind = "exception" THEN Raise(g, "TransportError")
        ELSE IF raise_for_status(resp.status)
             THEN Raise([g EXCEPT !.last_error = "HTTPStatusError"], "HTTPStatusError")
             ELSE after_accept(g, resp)

\* azure_di.py:37-55  the code run when client.post completes
post_response(g0, resp) ==
    LET g == [g0 EXCEPT !.submits = @ + 1, !.status = resp.status,
                        !.hdr = resp.retry_after, !.op_state = "none",
                        !.n429 = IF resp.status = 429 THEN @ + 1 ELSE @]
    IN  IF resp.kind = "exception" THEN Raise(g, "TransportError")
        ELSE IF resp.status \notin {200, 202}
             THEN IF resp.status = 429 /\ g.attempt < g.max_retries - 1
                  THEN Backoff(g, resp)
                  ELSE IF raise_for_status(resp.status)
                       THEN except_HTTPStatusError(g, resp)
                       ELSE after_accept(g, resp)
             ELSE after_accept(g, resp)

retry_sleep_done_same_attempt(g) ==
    [g EXCEPT !.pc = "post", !.sleep_for = 0]

\* azure_di.py:34, :46, :62, :65-66  the sleep is over: `continue` with the next
\* attempt; when range(max_retries) is exhausted, raise last_error if there
\* is one, else fall off the end of the function (return None)
retry_sleep_done(g) ==
    IF g.attempt + 1 < g.max_retries
    THEN [g EXCEPT !.pc = "post", !.attempt = @ + 1, !.sleep_for = 0]
    ELSE IF g.last_error # "none" THEN Raise(g, g.last_error)
         ELSE Return(g, "None")

\* azure_di.py:16-22  the code run when client.get completes
poll_response(g0, resp) ==
    LET g == [g0 EXCEPT !.polls = @ + 1, !.status = resp.status,
                        !.hdr = resp.retry_after, !.op_state = resp.op_state]
    IN  IF resp.kind = "exception" THEN Raise(g, "TransportError")
        ELSE IF raise_for_status(resp.status) THEN except_HTTPStatusError(g, resp)
        ELSE IF resp.op_state \in TerminalStates THEN Return(g, resp.op_state)
        ELSE [g EXCEPT !.pc = "poll_sleep", !.sleep_for = PollInterval]

poll_sleep_done_one_more(g) ==
    IF g.polls <= MaxPolls
    THEN [g EXCEPT !.pc = "get", !.sleep_for = 0]
    ELSE Raise(g, "TimeoutError")

\* azure_di.py:15 and :23  next iteration of range(60), or the loop is exhausted
poll_sleep_done(g) ==
    IF g.polls < MaxPolls
    THEN [g EXCEPT !.pc = "get", !.sleep_for = 0]
    ELSE Raise(g, "TimeoutError")

(***************************************************************************)
(* One analyze call run to completion against a scripted provider          *)
(***************************************************************************)

Accepted == [kind |-> "http", status |-> 202, retry_after |-> <<>>,
             op_location |-> TRUE, json_body |-> FALSE]

InlineBody == [kind |-> "http", status |-> 200, retry_after |-> <<>>,
               op_location |-> FALSE, json_body |-> TRUE]

RateLimited == [kind |-> "http", status |-> 429, retry_after |-> <<>>,
                op_location |-> FALSE, json_body |-> FALSE]

ServerError == [kind |-> "http", status |-> 500, retry_after |-> <<>>,
                op_location |-> FALSE, json_body |-> FALSE]

Operation(st) == [kind |-> "http", status |-> 200, retry_after |-> <<>>, op_state |-> st]

PollRateLimited == [kind |-> "http", status |-> 429, retry_after |-> <<>>, op_state |-> "none"]

\* A provider script: the answers to the successive POSTs of one analyze call,
\* and for every handle `running` non-terminal polls followed by `then`.
ProviderScripts ==
    { [name |-> "ok",            posts |-> <<Accepted, Accepted, Accepted>>,
       running |-> 1,  then |-> Operation("succeeded")],
      [name |-> "inline",        posts |-> <<InlineBody, InlineBody, InlineBody>>,
       running |-> 0,  then |-> Operation("succeeded")],
      [name |-> "op_failed",     posts |-> <<Accepted, Accepted, Accepted>>,
       running |-> 0,  then |-> Operation("failed")],
      [name |-> "429_then_ok",   posts |-> <<RateLimited, Accepted, Accepted>>,
       running |-> 0,  then |-> Operation("succeeded")],
      [name |-> "429_always",    posts |-> <<RateLimited, RateLimited, RateLimited>>,
       running |-> 0,  then |-> Operation("succeeded")],
      [name |-> "500",           posts |-> <<ServerError, ServerError, ServerError>>,
       running |-> 0,  then |-> Operation("succeeded")],
      [name |-> "never_done",    posts |-> <<Accepted, Accepted, Accepted>>,
       running |-> MaxPolls, then |-> Operation("running")],
      [name |-> "poll_429",      posts |-> <<Accepted, Accepted, Accepted>>,
       running |-> 1,  then |-> PollRateLimited] }

\* The step _post_analyze takes from g when the provider follows the script.
scripted_step(g, script) ==
    IF g.pc = "post" THEN post_response(g, script.posts[g.attempt + 1])
    ELSE IF g.pc = "retry_sleep" THEN retry_sleep_done(g)
    ELSE IF g.pc = "get"
         THEN poll_response(g, IF g.polls < script.running
                               THEN Operation("running") ELSE script.then)
    ELSE poll_sleep_done(g)

\* Every attempt is one POST, at most MaxPolls GETs with their sleeps, and one
\* back-off sleep.
MaxSteps == DefaultMaxRetries * (2 * MaxPolls + 2)

\* Up to n steps of _post_analyze from g, stopping at its return or raise.
RECURSIVE run_steps(_, _, _)
run_steps(g, script, n) ==
    IF g.pc \in {"returned", "raised"} THEN g
    ELSE IF n <= 1 THEN scripted_step(g, script)
    ELSE run_steps(run_steps(g, script, n \div 2), script, n - (n \div 2))

\* _post_analyze with the default max_retries, from its first request to its
\* return or raise, for every script
AnalyzeOutcome ==
    [script \in ProviderScripts |->
        run_steps(GatewayStart(DefaultMaxRetries), script, MaxSteps)]

\* azure_di.py:68-75  analyze_invoice / analyze_read
analyze(script) == AnalyzeOutcome[script]

(***************************************************************************)
(* Local files, discovery and the move to processed/                       *)
(*                                                                         *)
(* A path is [d, n]: d is the number of "processed" components below the   *)
(* input directory (0: the input directory itself), n the file name, a     *)
(* sequence <<stem>> or <<stem, k, ...>> for stem.ext, stem_k.ext, ...     *)
(* All files carry a supported extension.  fs maps the paths that exist    *)
(* to the identity of the file's content.                                  *)
(***************************************************************************)

\* config.py:25  bulk_size default
DefaultBulkSize == 5

\* Bounds of the model
MaxWindow == 2
MaxFiles == 3
MaxDepth == 1
MaxStart == 1

\* The names under which files arrive in the input directory: a.ext and a_1.ext
UploadNames == {<<"a">>, <<"a", 1>>}

FileIds == 1..MaxFiles

EmptyFs == [p \in {} |-> 0]

Exists(fsys, p) == p \in DOMAIN fsys

Path(d, n) == [d |-> d, n |-> n]

\* The order in which the directory walk yields two files: directory by
\* directory from the root down, and in a fixed order within a directory.
Before(fsys, p, q) == \/ p.d < q.d
                      \/ p.d = q.d /\ fsys[p] < fsys[q]

RECURSIVE walk(_, _)
walk(fsys, S) ==
    IF S = {} THEN <<>>
    ELSE LET first == CHOOSE p \in S : \A q \in S \ {p} : Before(fsys, p, q)
         IN  <<first>> \o walk(fsys, S \ {first})

\* discovery.py:17-22  glob("*") or rglob("*"), files only
discover_local(fsys, recursive) ==
    walk(fsys, {p \in DOMAIN fsys : recursive \/ p.d = 0})

\* The objects of the bucket: the uri s3://bucket/a.ext, a path with d = -1.
\* Nothing in the program writes to the bucket.
S3Objects == << Path(0 - 1, <<"a">>) >>

\* uri.startswith("s3://")
IsS3(p) == p.d < 0

\* discovery.py:25-47  the supported objects under the prefix
discover_s3(recursive) == S3Objects

\* discovery.py:50-59  discover: by the scheme of the path
discover(source, fsys, recursive) ==
    IF source = "s3" THEN discover_s3(recursive) ELSE discover_local(fsys, recursive)

\* Python's uris[lo:hi] for lo, hi >= 0
py_slice(seq, lo, hi) ==
    LET top == IF hi < Len(seq) THEN hi ELSE Len(seq)
    IN  IF lo < top THEN SubSeq(seq, lo + 1, top) ELSE <<>>

Min(a, b) == IF a < b THEN a ELSE b

window_from_zero(uris, starting_point, size) ==
    LET end_point == Min(size, Len(uris))
    IN  py_slice(uris, starting_point, end_point)

\* pipeline.py:232-233  end_point and uris_to_process
window(uris, starting_point, size) ==
    LET end_point == Min(starting_point + size, Len(uris))
    IN  py_slice(uris, starting_point, end_point)

\* pipeline.py:61-63  while destination.exists(): stem_counter.suffix
RECURSIVE first_free(_, _, _, _)
first_free(fsys, d, n, counter) ==
    IF Exists(fsys, Path(d, Append(n, counter)))
    THEN first_free(fsys, d, n, counter + 1)
    ELSE Append(n, counter)

destination_same_name(fsys, p) == Path(p.d + 1, p.n)

\* pipeline.py:50-63  the destination in the sibling processed directory
destination(fsys, p) ==
    IF Exists(fsys, Path(p.d + 1, p.n))
    THEN Path(p.d + 1, first_free(fsys, p.d + 1, p.n, 1))
    ELSE Path(p.d + 1, p.n)

\* shutil.move(source, destination): a rename, which replaces an existing destination
rename(fsys, src, dst) ==
    [q \in (DOMAIN fsys \ {src}) \cup {dst} |-> IF q = dst THEN fsys[src] ELSE fsys[q]]

\* pipeline.py:27-76  _move_to_processed: the new file system and the
\* returned path.  An s3:// uri is returned as it is.  move_ok = FALSE is an
\* exception of mkdir or shutil.move, which is caught and leaves the file
\* where it is.
_move_to_processed(fsys, p, move_ok) ==
    IF IsS3(p) \/ ~Exists(fsys, p) \/ ~move_ok
    THEN [fs |-> fsys, path |-> p]
    ELSE LET dst == destination(fsys, p)
         IN  [fs |-> rename(fsys, p, dst), path |-> dst]

(***************************************************************************)
(* Batch driver: process_path and process_path_with_llm                    *)
(***************************************************************************)

\* A batch driver invocation.
\*   pc             "idle" (none since the input last changed), "running" (inside
\*                  the for loop), "returned"
\*   mode           "di": process_path, "llm": process_path_with_llm
\*   uris, total_files, window, files_handled, results   the locals of those names
\*                  (window is uris_to_process)
\*   i              iterations of the for loop completed
\*   script         the provider script played to analyze_invoice in the last
\*                  iteration ("none": the iteration did not get that far)
\*   fs0            the file system when the invocation started
\*   rediscovered   the discovered files that lie in a processed directory, where
\*                  only the move of an earlier invocation can have put them
IdleCall ==
    [pc |-> "idle", mode |-> "di", recursive |-> FALSE, starting_point |-> 0,
     uris |-> <<>>, total_files |-> 0, window |-> <<>>, files_handled |-> 0,
     i |-> 0, script |-> "none", results |-> <<>>, fs0 |-> EmptyFs,
     rediscovered |-> {}]

\* History.
\*   next_id     identity of the next file to arrive
\*   last_move   <<>> or <<m>>: m.src, m.dst and the names m.taken present in the
\*               destination directory before the last move of the invocation
\*   lost        files whose content a move has replaced
\*   run         the calls made since the last call with starting_point = 0, as long
\*               as they follow the cursor protocol 0, W, 2W, ... on an unchanged
\*               input: next is the next starting point, files the files present at
\*               the first call, sum the sum of files_handled, times how often each
\*               file was processed
\*   move        what became of the move of the last iteration: "none" (no move
\*               was tried), "done", or "failed" (mkdir or shutil.move raised)
NoRun ==
    [active |-> FALSE, recursive |-> FALSE, next |-> 0, files |-> {}, sum |-> 0,
     times |-> [c \in FileIds |-> 0]]

InitHist ==
    [next_id |-> 1, last_move |-> <<>>, lost |-> {}, run |-> NoRun, move |-> "none"]

sentinel_with_partial_values(uri, language, cause) ==
    [uri |-> uri, source_path |-> uri, language |-> language,
     document_type |-> "other", extracted |-> cause = "post", confidence |-> "0.0",
     page_count |-> IF cause = "post" THEN "n" ELSE "null", file_url |-> <<>>,
     cause |-> cause]

\* pipeline.py:290-306 (language "en") and :498-516 (language "unknown"): the
\* record appended by the except branch.  cause records which step raised.
\* file_url is <<>> (None) or <<the path the URL points to>>.
sentinel(uri, language, cause) ==
    [uri |-> uri, source_path |-> uri, language |-> language,
     document_type |-> "other", extracted |-> FALSE, confidence |-> "0.0",
     page_count |-> "null", file_url |-> <<>>, cause |-> cause]

\* What the analysis payload holds: whether invoice_number, total and
\* supplier_name are all absent ("none"), present but all falsy such as 0.0 or
\* "" ("falsy"), or one is truthy; and whether the payload carries a top-level
\* confidence.
PayloadContents ==
    { [fields |-> "none",   confidence |-> "null"],
      [fields |-> "falsy",  confidence |-> "null"],
      [fields |-> "truthy", confidence |-> "null"],
      [fields |-> "truthy", confidence |-> "value"] }

\* pipeline.py:261-274  map_invoice, the document type decision, validate_invoice_data
mapped_record(uri, g, content) ==
    LET fields == IF g.payload = "failed" THEN "none" ELSE content.fields
    IN  [uri |-> uri, source_path |-> uri, language |-> "en",
         document_type |-> IF fields = "truthy" THEN "invoice" ELSE "other",
         extracted |-> fields # "none",
         confidence |-> IF g.payload = "failed" THEN "null" ELSE content.confidence,
         page_count |-> "n", file_url |-> <<uri>>, cause |-> "none"]

\* pipeline.py:419-437  the record of a file without OCR text
empty_ocr_record(uri) ==
    [uri |-> uri, source_path |-> uri, language |-> "unknown",
     document_type |-> "other", extracted |-> FALSE, confidence |-> "0.0",
     page_count |-> "n", file_url |-> <<>>, cause |-> "none"]

\* llm_processor.py extract_invoice_data as seen by the caller: a structure
\* with extracted fields, the fixed all-null structure, or a structure that
\* InvoiceData rejects.
LlmResults == {"fields", "all_null", "invalid"}

\* pipeline.py:462-480  the record built from the LLM result
llm_record(uri, llm) ==
    [uri |-> uri, source_path |-> uri, language |-> "unknown",
     document_type |-> IF llm = "fields" THEN "invoice" ELSE "other",
     extracted |-> llm = "fields", confidence |-> "null",
     page_count |-> "n", file_url |-> <<uri>>, cause |-> "none"]

\* The file the for loop is at.
CurrentUri == call.window[call.i + 1]

\* The model follows files through MaxDepth levels of processed/: the
\* iteration for a file on the last level is not taken.
WithinDepth == CurrentUri.d < MaxDepth

\* pipeline.py:284, :419 and :492  results.append(...) of a processed file
append_result(rec) == Append(call.results, rec)

drop_sentinel(rec) == call.results

\* pipeline.py:290 and :498  results.append(...) of the except branch
append_sentinel(rec) == Append(call.results, rec)

\* One iteration of the for loop ends with the given results, rec being the
\* record of the file; the file system and the analyze call are as given.
IterationEndsWith(results, rec, newfs, g, script, move) ==
    LET uri == CurrentUri
        was_moved == rec.source_path # uri
        dst == rec.source_path
    IN  /\ call' = [call EXCEPT !.results = results,
                                !.i = @ + 1,
                                !.script = script,
                                !.pc = IF call.i + 1 >= call.files_handled
                                       THEN "returned" ELSE "running"]
        /\ fs' = newfs
        /\ gw' = g
        /\ hist' = [hist EXCEPT
              !.last_move = IF was_moved
                            THEN << [src |-> uri, dst |-> dst,
                                     taken |-> {q.n : q \in {r \in DOMAIN fs : r.d = dst.d}}] >>
                            ELSE @,
              !.lost = IF was_moved /\ Exists(fs, dst) THEN @ \cup {fs[dst]} ELSE @,
              !.move = move,
              !.run.times = IF hist.run.active /\ Exists(fs, uri)
                            THEN [@ EXCEPT ![fs[uri]] = @ + 1] ELSE @]
        /\ UNCHANGED <<bulk_size, mp>>

\* An iteration that ends without trying to move the file.
IterationEnds(results, rec, newfs, g, script) ==
    IterationEndsWith(results, rec, newfs, g, script, "none")

ExceptBranch_moving_the_file(language, cause, g, script) ==
    LET rec == sentinel(CurrentUri, language, cause)
    IN  IterationEnds(append_sentinel(rec), rec,
                      _move_to_processed(fs, CurrentUri, TRUE).fs, g, script)

\* pipeline.py:286-306 and :494-516  except Exception: the sentinel is appended
\* and the loop goes on; the file stays where it is
ExceptBranch(language, cause, g, script) ==
    LET rec == sentinel(CurrentUri, language, cause)
    IN  IterationEnds(append_sentinel(rec), rec, fs, g, script)

MoveAndAppend_keeping_the_path(rec0, g, script) ==
    \E move_ok \in BOOLEAN :
        LET m == _move_to_processed(fs, CurrentUri, move_ok)
            move == IF IsS3(CurrentUri) \/ ~Exists(fs, CurrentUri) THEN "none"
                    ELSE IF move_ok THEN "done" ELSE "failed"
        IN  IterationEndsWith(append_result(rec0), rec0, m.fs, g, script, move)

MoveAndAppend_only_with_data(rec0, g, script) ==
    IF ~rec0.extracted
    THEN IterationEnds(append_result(rec0), rec0, fs, g, script)
    ELSE \E move_ok \in BOOLEAN :
            LET m == _move_to_processed(fs, CurrentUri, move_ok)
                rec == [rec0 EXCEPT !.source_path = m.path,
                                    !.file_url = IF m.path # CurrentUri THEN <<m.path>> ELSE @]
                move == IF IsS3(CurrentUri) \/ ~Exists(fs, CurrentUri) THEN "none"
                        ELSE IF move_ok THEN "done" ELSE "failed"
            IN  IterationEndsWith(append_result(rec), rec, m.fs, g, script, move)

\* pipeline.py:276-284 and :484-492  move the file, point the record at its
\* new place, append the record
MoveAndAppend(rec0, g, script) ==
    \E move_ok \in BOOLEAN :
        LET m == _move_to_processed(fs, CurrentUri, move_ok)
            rec == [rec0 EXCEPT !.source_path = m.path,
                                !.file_url = IF m.path # CurrentUri THEN <<m.path>> ELSE @]
            move == IF IsS3(CurrentUri) \/ ~Exists(fs, CurrentUri) THEN "none"
                    ELSE IF move_ok THEN "done" ELSE "failed"
        IN  IterationEndsWith(append_result(rec), rec, m.fs, g, script, move)

\* The analyze call raised, or returned None (the caller's parsed.get raises).
AnalyzeFailed(g) == g.pc = "raised" \/ g.payload = "None"

\* No request was made.
NotCalled == GatewayStart(DefaultMaxRetries)

\* pipeline.py:239-306  one iteration of the for loop of process_path
ProcessFile ==
    /\ call.pc = "running"
    /\ call.mode = "di"
    /\ WithinDepth
    /\ \E read_ok \in BOOLEAN :
          IF ~read_ok \/ (~IsS3(CurrentUri) /\ ~Exists(fs, CurrentUri))
          THEN ExceptBranch("en", "read", NotCalled, "none")
          ELSE \E script \in ProviderScripts :
             LET g == analyze(script)
             IN  IF AnalyzeFailed(g)
                 THEN ExceptBranch("en", "analyze", g, script.name)
                 ELSE \E post_ok \in BOOLEAN :
                    IF ~post_ok
                    THEN ExceptBranch("en", "post", g, script.name)
                    ELSE \E content \in PayloadContents :
                       MoveAndAppend(mapped_record(CurrentUri, g, content), g, script.name)

\* The scripts played to analyze_read in the model.
ReadScripts == {s \in ProviderScripts : s.name \in {"ok", "op_failed", "500"}}

\* pipeline.py:346-516  one iteration of the for loop of process_path_with_llm
ProcessFileWithLlm ==
    /\ call.pc = "running"
    /\ call.mode = "llm"
    /\ WithinDepth
    /\ \E read_ok \in BOOLEAN :
          IF ~read_ok \/ (~IsS3(CurrentUri) /\ ~Exists(fs, CurrentUri))
          THEN ExceptBranch("unknown", "read", NotCalled, "none")
          ELSE \E script \in ProviderScripts :
             LET g == analyze(script)
             IN  IF AnalyzeFailed(g)
                 THEN ExceptBranch("unknown", "analyze", g, script.name)
                 ELSE \E post_ok \in BOOLEAN :
                    IF ~post_ok
                    THEN ExceptBranch("unknown", "post", g, script.name)
                    ELSE \E ocr \in ReadScripts :
                       LET r == analyze(ocr)
                       IN  IF AnalyzeFailed(r)
                           THEN ExceptBranch("unknown", "analyze", r, script.name)
                           ELSE \E has_text \in BOOLEAN :
                              IF ~has_text \/ r.payload = "failed"
                              THEN LET rec == empty_ocr_record(CurrentUri)
                                   IN  IterationEnds(append_result(rec), rec, fs, r, script.name)
                              ELSE \E llm \in LlmResults :
                                 IF llm = "invalid"
                                 THEN ExceptBranch("unknown", "post", r, script.name)
                                 ELSE MoveAndAppend(llm_record(CurrentUri, llm), r, script.name)

\* The cursor protocol of `run` as continued by a call of process_path.
next_run(mode, recursive, starting_point, uris, handled) ==
    IF mode = "di" /\ starting_point = 0
    THEN [active |-> TRUE, recursive |-> recursive, next |-> bulk_size,
          files |-> {fs[uris[i]] : i \in 1..Len(uris)}, sum |-> handled,
          times |-> [c \in FileIds |-> 0]]
    ELSE IF /\ hist.run.active
            /\ mode = "di"
            /\ recursive = hist.run.recursive
            /\ starting_point = hist.run.next
            /\ hist.run.next < Cardinality(hist.run.files)
         THEN [hist.run EXCEPT !.next = @ + bulk_size, !.sum = @ + handled]
         ELSE NoRun

\* pipeline.py:227-238 and :332-344  discovery and the window of one invocation
Start ==
    /\ call.pc # "running"
    /\ \E mode \in {"di", "llm"}, source \in {"file", "s3"},
          recursive \in BOOLEAN, starting_point \in 0..MaxStart :
          /\ LET uris == discover(source, fs, recursive)
                 total_files == Len(uris)
                 uris_to_process == window(uris, starting_point, bulk_size)
                 files_handled == Len(uris_to_process)
             IN  /\ call' = [pc |-> IF files_handled = 0 THEN "returned" ELSE "running",
                             mode |-> mode, recursive |-> recursive,
                             starting_point |-> starting_point,
                             uris |-> uris, total_files |-> total_files,
                             window |-> uris_to_process,
                             files_handled |-> files_handled,
                             i |-> 0, script |-> "none",
                             results |-> <<>>, fs0 |-> fs,
                             rediscovered |->
                                 {fs[uris[i]] : i \in {j \in 1..Len(uris) : uris[j].d > 0}}]
                 /\ hist' = [hist EXCEPT
                       !.last_move = <<>>,
                       !.move = "none",
                       !.run = IF source = "file"
                               THEN next_run(mode, recursive, starting_point, uris, files_handled)
                               ELSE NoRun]
    /\ UNCHANGED <<gw, fs, bulk_size, mp>>

\* main.py:70-102  upload_file: a file arrives in the input directory under
\* its unique name, replacing a file of that name.  The record of the last
\* invocation is kept until then.
upload_file ==
    /\ call.pc # "running"
    /\ hist.next_id <= MaxFiles
    /\ \E n \in UploadNames :
          LET p == Path(0, n)
          IN  fs' = [q \in DOMAIN fs \cup {p} |-> IF q = p THEN hist.next_id ELSE fs[q]]
    /\ hist' = [hist EXCEPT !.next_id = @ + 1, !.run = NoRun, !.move = "none"]
    /\ call' = IdleCall
    /\ UNCHANGED <<gw, bulk_size, mp>>

Init ==
    /\ gw = GatewayStart(DefaultMaxRetries)
    /\ fs = EmptyFs
    /\ bulk_size \in 1..MaxWindow
    /\ call = IdleCall
    /\ hist = InitHist
    /\ mp = IdleMapper

Next == upload_file \/ Start \/ ProcessFile \/ ProcessFileWithLlm

Spec == Init /\ [][Next]_vars

(***************************************************************************)
(* SpecGateway: one analyze call, one step per suspension point            *)
(***************************************************************************)

InitGateway ==
    /\ \E m \in 1..DefaultMaxRetries : gw = GatewayStart(m)
    /\ fs = EmptyFs
    /\ bulk_size = DefaultBulkSize
    /\ call = IdleCall
    /\ hist = InitHist
    /\ mp = IdleMapper

Submit == /\ gw.pc = "post"
          /\ \E resp \in SubmitResponses : gw' = post_response(gw, resp)
          /\ UNCHANGED <<fs, bulk_size, call, hist, mp>>

RetrySleep == /\ gw.pc = "retry_sleep"
              /\ gw' = retry_sleep_done(gw)
              /\ UNCHANGED <<fs, bulk_size, call, hist, mp>>

Poll == /\ gw.pc = "get"
        /\ \E resp \in PollResponses : gw' = poll_response(gw, resp)
        /\ UNCHANGED <<fs, bulk_size, call, hist, mp>>

PollSleep == /\ gw.pc = "poll_sleep"
             /\ gw' = poll_sleep_done(gw)
             /\ UNCHANGED <<fs, bulk_size, call, hist, mp>>

NextGateway == Submit \/ RetrySleep \/ Poll \/ PollSleep

SpecGateway == InitGateway /\ [][NextGateway]_vars

(***************************************************************************)
(* SpecGatewayFair: the analyze call where every request is answered or    *)
(* fails (each is bounded by the client timeout) and every sleep ends      *)
(***************************************************************************)

SpecGatewayFair == InitGateway /\ [][NextGateway]_vars /\ WF_vars(NextGateway)

(***************************************************************************)
(* Canonical mapper (mapping.py) and LLM normalizer (llm_processor.py)     *)
(*                                                                         *)
(* A JSON value that may be missing is a record with a kind: "absent" (the *)
(* key is not there), "null", "text" (a string where an object is          *)
(* expected) or "object".  An optional scalar is <<>> (None) or <<v>>.     *)
(* Confidences are in hundredths.  A normalized coordinate polygon[i] /    *)
(* page_width is the pair <<polygon[i], page_width>>.                      *)
(***************************************************************************)

Absent == [kind |-> "absent"]

Null == [kind |-> "null"]

Text == [kind |-> "text"]

\* isinstance(field, dict)
IsObject(v) == v.kind = "object"

\* `key in fields`
Present(v) == v.kind # "absent"

\* A dict without entries.
EmptyDict == [k \in {} |-> 0]

\* d[k] = v for a dict d
Put(d, k, v) == (k :> v) @@ d

\* mapping.py:83-102  _get_page_dimensions.  A pages value that is not a list
\* of objects raises inside the try and gives the default.
RECURSIVE page_dims_of(_, _)
page_dims_of(pages, acc) ==
    IF pages = <<>> THEN acc
    ELSE LET page == Head(pages)
             page_number == IF page.pageNumber = <<>> THEN 1 ELSE page.pageNumber[1]
             width == IF page.width = <<>> THEN 1 ELSE page.width[1]
             height == IF page.height = <<>> THEN 1 ELSE page.height[1]
         IN  page_dims_of(Tail(pages), Put(acc, page_number, <<width, height>>))

_get_page_dimensions(di) ==
    IF di.pages.kind = "null" THEN (1 :> <<1, 1>>)
    ELSE LET pages == IF di.pages.kind = "absent" THEN <<>> ELSE di.pages.list
             page_dims == page_dims_of(pages, EmptyDict)
         IN  IF DOMAIN page_dims # {} THEN page_dims ELSE (1 :> <<1, 1>>)

\* mapping.py:105-111  _get_page_count
_get_page_count(di) ==
    IF di.pages.kind = "list" /\ di.pages.list # <<>> THEN Len(di.pages.list) ELSE 1

\* mapping.py:58-61  the points of the polygon, normalized.  A polygon of odd
\* length raises IndexError, a zero dimension ZeroDivisionError.
polygon_points(polygon, page_width, page_height) ==
    [k \in 1..(Len(polygon) \div 2) |->
        [x |-> <<polygon[2 * k - 1], page_width>>,
         y |-> <<polygon[2 * k], page_height>>]]

\* mapping.py:24-70  _extract_bounding_box: <<>> (None) or <<box>>.  Every
\* exception is caught and gives None.
_extract_bounding_box(field, page_dims) ==
    IF ~IsObject(field) THEN <<>>
    ELSE LET bounding_regions == field.boundingRegions
         IN  IF bounding_regions = <<>> THEN <<>>
             ELSE LET region == bounding_regions[1]
                      polygon == region.polygon
                      page_number == IF region.pageNumber = <<>> THEN 1
                                     ELSE region.pageNumber[1]
                  IN  IF polygon = <<>> \/ Len(polygon) < 8 THEN <<>>
                      ELSE IF page_number \notin DOMAIN page_dims THEN <<>>
                      ELSE IF Len(polygon) % 2 = 1 THEN <<>>
                      ELSE IF 0 \in {page_dims[page_number][1], page_dims[page_number][2]}
                           THEN <<>>
                      ELSE << [polygon |-> polygon_points(polygon,
                                                page_dims[page_number][1],
                                                page_dims[page_number][2]),
                               page_number |-> page_number] >>

\* mapping.py:73-80  _extract_field_confidence
_extract_field_confidence(field) ==
    IF ~IsObject(field) THEN <<>> ELSE field.confidence

\* mapping.py:209-216 and :118-125  get_currency_value raises AttributeError
\* when valueCurrency is neither an object nor falsy
get_currency_value_raises(field) ==
    IsObject(field) /\ field.val.kind = "currency_text"

\* mapping.py:209-216 and :118-125  get_currency_value: amount and currencyCode
get_currency_value(field) ==
    IF ~IsObject(field) THEN [amount |-> <<>>, code |-> <<>>]
    ELSE IF field.val.kind = "currency"
         THEN [amount |-> <<field.val.amount>>, code |-> <<"USD">>]
    ELSE IF field.val.kind = "currency_code_only"
         THEN [amount |-> <<>>, code |-> <<"USD">>]
    ELSE IF field.val.kind = "number"
         THEN [amount |-> <<field.val.amount>>, code |-> <<>>]
    ELSE [amount |-> <<>>, code |-> <<>>]

\* (fields.get(name, {}) or {}).get("valueString") if isinstance(..., dict) else None
value_string(field) ==
    IF IsObject(field) /\ field.val.kind = "string" THEN <<"s">> ELSE <<>>

\* mapping.py:244-253  field_mapping of map_invoice, in the order of the dict
InvoiceFieldMapping ==
    << <<"VendorName", "supplier_name">>, <<"CustomerName", "supplier_name">>,
       <<"InvoiceId", "invoice_number">>, <<"InvoiceNumber", "invoice_number">>,
       <<"InvoiceDate", "invoice_date">>, <<"SubTotal", "subtotal">>,
       <<"TotalTax", "tax_amount">>, <<"InvoiceTotal", "total">> >>

\* mapping.py:155-162  field_mapping of map_receipt, in the order of the dict
ReceiptFieldMapping ==
    << <<"MerchantName", "supplier_name">>, <<"TransactionDate", "invoice_date">>,
       <<"Subtotal", "subtotal">>, <<"TotalTax", "tax_amount">>,
       <<"Tax", "tax_amount">>, <<"Total", "total">> >>

\* The provider field names the mapper looks at, Items apart.
ProviderNames ==
    {"VendorName", "CustomerName", "InvoiceId", "InvoiceNumber", "InvoiceDate",
     "SubTotal", "TotalTax", "InvoiceTotal", "Tax",
     "MerchantName", "TransactionDate", "Subtotal", "Total"}

\* mapping.py:255-261  the bounding box part of the loop of map_invoice
RECURSIVE invoice_bounding_boxes(_, _, _, _)
invoice_bounding_boxes(field_mapping, fields, page_dims, bounding_boxes) ==
    IF field_mapping = <<>> THEN bounding_boxes
    ELSE LET azure_field_name == Head(field_mapping)[1]
             our_field_name == Head(field_mapping)[2]
             bbox == _extract_bounding_box(fields[azure_field_name], page_dims)
         IN  invoice_bounding_boxes(Tail(field_mapping), fields, page_dims,
                IF /\ Present(fields[azure_field_name])
                   /\ our_field_name \notin DOMAIN bounding_boxes
                   /\ bbox # <<>>
                THEN Put(bounding_boxes, our_field_name, bbox[1])
                ELSE bounding_boxes)

\* mapping.py:164-169  the bounding box part of the loop of map_receipt
RECURSIVE receipt_bounding_boxes(_, _, _, _)
receipt_bounding_boxes(field_mapping, fields, page_dims, bounding_boxes) ==
    IF field_mapping = <<>> THEN bounding_boxes
    ELSE LET azure_field_name == Head(field_mapping)[1]
             our_field_name == Head(field_mapping)[2]
             bbox == _extract_bounding_box(fields[azure_field_name], page_dims)
         IN  receipt_bounding_boxes(Tail(field_mapping), fields, page_dims,
                IF /\ Present(fields[azure_field_name])
                   /\ bbox # <<>>
                THEN Put(bounding_boxes, our_field_name, bbox[1])
                ELSE bounding_boxes)

RECURSIVE field_confidences_last_wins(_, _, _)
field_confidences_last_wins(field_mapping, fields, field_confidences) ==
    IF field_mapping = <<>> THEN field_confidences
    ELSE LET azure_field_name == Head(field_mapping)[1]
             our_field_name == Head(field_mapping)[2]
             conf == _extract_field_confidence(fields[azure_field_name])
         IN  field_confidences_last_wins(Tail(field_mapping), fields,
                IF /\ Present(fields[azure_field_name])
                   /\ conf # <<>>
                THEN Put(field_confidences, our_field_name, conf[1])
                ELSE field_confidences)

\* mapping.py:171-175 and :263-267  the confidence part of the loop
RECURSIVE field_confidences_of(_, _, _)
field_confidences_of(field_mapping, fields, field_confidences) ==
    IF field_mapping = <<>> THEN field_confidences
    ELSE LET azure_field_name == Head(field_mapping)[1]
             our_field_name == Head(field_mapping)[2]
             conf == _extract_field_confidence(fields[azure_field_name])
         IN  field_confidences_of(Tail(field_mapping), fields,
                IF /\ Present(fields[azure_field_name])
                   /\ our_field_name \notin DOMAIN field_confidences
                   /\ conf # <<>>
                THEN Put(field_confidences, our_field_name, conf[1])
                ELSE field_confidences)

\* The entries of Items.valueArray; <<>> when Items is not an object.
item_entries(di) == IF di.items.kind = "array" THEN di.items.entries ELSE <<>>

\* mapping.py:219-225 and :128-134  the loop over the items raises: valueArray
\* is null (TypeError), an entry is not an object or its valueObject is null
\* (AttributeError)
items_raise(di) ==
    \/ di.items.kind = "array_null"
    \/ \E k \in 1..Len(item_entries(di)) :
          item_entries(di)[k].kind \in {"text", "object_null"}

\* The description of an entry: <<>> (None) or <<valueString>>
description_of(it) == IF it.kind = "object" THEN it.description ELSE <<>>

line_items_unfiltered(entries) ==
    [k \in 1..Len(entries) |-> [description |-> description_of(entries[k])]]

\* mapping.py:218-227 and :127-136  `if desc: items.append(LineItem(...))`
line_items_of(entries) ==
    LET kept == SelectSeq(entries, LAMBDA it : description_of(it) \notin {<<>>, <<"">>})
    IN  [k \in 1..Len(kept) |-> [description |-> description_of(kept[k])]]

\* mapping.py:191 and :283  _safe_float(di.get("confidence")) or None
document_confidence(di) ==
    IF di.confidence = <<>> \/ di.confidence = <<0>> THEN <<>> ELSE di.confidence

\* models.py:31  confidence: Field(ge=0.0, le=1.0): InvoiceData(...) raises
\* ValidationError outside the range
InvoiceData_raises(confidence) ==
    confidence # <<>> /\ (confidence[1] < 0 \/ confidence[1] > 100)

\* mapping.py:202-206  the debug loop of map_invoice evaluates
\* field_data.get('valueCurrency', {}).get('amount') when the field has no
\* truthy valueString, valueNumber or valueDate: AttributeError when
\* valueCurrency is null or not an object
debug_loop_raises(di) ==
    \E name \in ProviderNames :
        /\ IsObject(di.fields[name])
        /\ di.fields[name].val.kind \in {"currency_null", "currency_text"}

Raised(error) == [raised |-> TRUE, error |-> error]

\* mapping.py:275  supplier_name: VendorName when it is an object, else
\* CustomerName when that is an object, else None
invoice_supplier_name(fields) ==
    IF IsObject(fields["VendorName"]) THEN value_string(fields["VendorName"])
    ELSE IF IsObject(fields["CustomerName"]) THEN value_string(fields["CustomerName"])
    ELSE <<>>

\* mapping.py:276  invoice_number
invoice_number_of(fields) ==
    IF IsObject(fields["InvoiceId"]) THEN value_string(fields["InvoiceId"])
    ELSE IF IsObject(fields["InvoiceNumber"]) THEN value_string(fields["InvoiceNumber"])
    ELSE <<>>

\* mapping.py:232-236 and :143-147  currency code of the total, else of the subtotal
currency_code_of(total, subtotal) ==
    IF get_currency_value(total).code # <<>> THEN get_currency_value(total).code
    ELSE get_currency_value(subtotal).code

\* mapping.py:198-287  map_invoice
map_invoice(di) ==
    LET fields == di.fields
        confidence == document_confidence(di)
    IN  IF debug_loop_raises(di) THEN Raised("AttributeError")
        ELSE IF items_raise(di) THEN Raised("TypeError")
        ELSE IF \E n \in {"SubTotal", "TotalTax", "InvoiceTotal"} :
                    get_currency_value_raises(fields[n])
             THEN Raised("AttributeError")
        ELSE IF InvoiceData_raises(confidence) THEN Raised("ValidationError")
        ELSE [raised |-> FALSE,
              document_type |-> "invoice",
              supplier_name |-> invoice_supplier_name(fields),
              invoice_number |-> invoice_number_of(fields),
              currency |-> currency_code_of(fields["InvoiceTotal"], fields["SubTotal"]),
              subtotal |-> get_currency_value(fields["SubTotal"]).amount,
              tax_amount |-> get_currency_value(fields["TotalTax"]).amount,
              total |-> get_currency_value(fields["InvoiceTotal"]).amount,
              line_items |-> line_items_of(item_entries(di)),
              confidence |-> confidence,
              bounding_boxes |-> invoice_bounding_boxes(InvoiceFieldMapping, fields,
                                     _get_page_dimensions(di), EmptyDict),
              page_count |-> _get_page_count(di),
              field_confidence |-> field_confidences_of(InvoiceFieldMapping, fields,
                                                         EmptyDict)]

\* mapping.py:139-142  tax_val of map_receipt: TotalTax, else Tax
receipt_tax(fields) ==
    IF get_currency_value(fields["TotalTax"]).amount # <<>>
    THEN get_currency_value(fields["TotalTax"]).amount
    ELSE get_currency_value(fields["Tax"]).amount

\* mapping.py:114-195  map_receipt
map_receipt(di) ==
    LET fields == di.fields
        confidence == document_confidence(di)
    IN  IF items_raise(di) THEN Raised("TypeError")
        ELSE IF \/ \E n \in {"Subtotal", "TotalTax", "Total"} :
                      get_currency_value_raises(fields[n])
                \/ /\ get_currency_value(fields["TotalTax"]).amount = <<>>
                   /\ get_currency_value_raises(fields["Tax"])
             THEN Raised("AttributeError")
        ELSE IF InvoiceData_raises(confidence) THEN Raised("ValidationError")
        ELSE [raised |-> FALSE,
              document_type |-> "receipt",
              supplier_name |-> value_string(fields["MerchantName"]),
              invoice_number |-> <<>>,
              currency |-> currency_code_of(fields["Total"], fields["Subtotal"]),
              subtotal |-> get_currency_value(fields["Subtotal"]).amount,
              tax_amount |-> receipt_tax(fields),
              total |-> get_currency_value(fields["Total"]).amount,
              line_items |-> line_items_of(item_entries(di)),
              confidence |-> confidence,
              bounding_boxes |-> receipt_bounding_boxes(ReceiptFieldMapping, fields,
                                     _get_page_dimensions(di), EmptyDict),
              page_count |-> _get_page_count(di),
              field_confidence |-> field_confidences_of(ReceiptFieldMapping, fields,
                                                         EmptyDict)]

\* llm_processor.py:52-63  the structure returned on error
FixedStructure ==
    [kind |-> "object", language |-> "unknown", document_type |-> "other",
     extracted |-> FALSE, line_items |-> [kind |-> "list", entries |-> <<>>]]

extract_invoice_data_unguarded(reply) ==
    IF reply.kind = "json" THEN reply.result ELSE [kind |-> "raised"]

\* llm_processor.py:12-63  extract_invoice_data: the parsed reply, or the fixed
\* structure when the request, the access to the reply or json.loads raises
extract_invoice_data(reply) ==
    IF reply.kind = "json" THEN reply.result ELSE FixedStructure

\* The entries of the line_items of the LLM result; <<>> when it is falsy
llm_entries(llm_result) ==
    IF llm_result.line_items.kind = "list" THEN llm_result.line_items.entries ELSE <<>>

\* pipeline.py:449-460  the LineItem of every item with a truthy description
llm_line_items(entries) ==
    LET kept == SelectSeq(entries, LAMBDA item : item.description \notin {<<>>, <<"">>})
    IN  [k \in 1..Len(kept) |-> [description |-> kept[k].description[1]]]

\* pipeline.py:444-480  the record built from the LLM result.  llm_result.get
\* raises when the result is not an object, item.get when an item is not an
\* object, InvoiceData when language or document_type is null.
llm_invoice_data(llm_result) ==
    IF llm_result.kind # "object" THEN Raised("AttributeError")
    ELSE IF \E k \in 1..Len(llm_entries(llm_result)) :
               llm_entries(llm_result)[k].kind = "text"
         THEN Raised("AttributeError")
    ELSE IF llm_result.language = "null" THEN Raised("ValidationError")
    ELSE [raised |-> FALSE,
          language |-> IF llm_result.language = "absent" THEN "unknown"
                       ELSE llm_result.language,
          document_type |-> llm_result.document_type,
          extracted |-> llm_result.extracted,
          line_items |-> llm_line_items(llm_entries(llm_result)),
          confidence |-> <<>>]

(***************************************************************************)
(* Inputs of the mapper and of the normalizer                              *)
(***************************************************************************)

\* Items arrays and LLM line_items lists have up to MaxItems entries.
MaxItems == 2

Page(n, w, h) == [pageNumber |-> n, width |-> w, height |-> h]

PageList(list) == [kind |-> "list", list |-> list]

\* One page of 10 x 20 units.
DefaultPages == PageList(<< Page(<<1>>, <<10>>, <<20>>) >>)

PageLists ==
    { [kind |-> "absent", list |-> <<>>],
      [kind |-> "null", list |-> <<>>],
      PageList(<<>>),
      DefaultPages,
      PageList(<< Page(<<>>, <<10>>, <<20>>) >>),
      PageList(<< Page(<<1>>, <<>>, <<20>>) >>),
      PageList(<< Page(<<1>>, <<10>>, <<>>) >>),
      PageList(<< Page(<<1>>, <<0>>, <<20>>) >>),
      PageList(<< Page(<<2>>, <<10>>, <<20>>) >>),
      PageList(<< Page(<<1>>, <<10>>, <<20>>), Page(<<2>>, <<10>>, <<20>>) >>) }

Region(polygon, n) == [polygon |-> polygon, pageNumber |-> n]

Quad == <<1, 1, 9, 1, 9, 5, 1, 5>>

OtherQuad == <<2, 2, 8, 2, 8, 4, 2, 4>>

\* x = 30 lies outside a page 10 wide
OversizeQuad == <<1, 1, 30, 1, 30, 5, 1, 5>>

Pentagon == <<1, 1, 9, 1, 9, 5, 5, 7, 1, 5>>

Triangle == <<1, 1, 9, 1, 9, 5>>

OddPolygon == <<1, 1, 9, 1, 9, 5, 1, 5, 1>>

RegionLists ==
    { <<>>,
      << Region(Quad, <<1>>) >>,
      << Region(OtherQuad, <<1>>) >>,
      << Region(OversizeQuad, <<1>>) >>,
      << Region(Pentagon, <<1>>) >>,
      << Region(Triangle, <<1>>) >>,
      << Region(OddPolygon, <<1>>) >>,
      << Region(<<>>, <<1>>) >>,
      << Region(Quad, <<2>>) >>,
      << Region(Quad, <<>>) >>,
      << Region(Quad, <<1>>), Region(OtherQuad, <<1>>) >> }

Value(kind, amount) == [kind |-> kind, amount |-> amount]

NoValue == Value("none", 0)

\* What a field carries as its value: nothing, valueCurrency with an amount,
\* without an amount, null or a string, valueNumber, valueString.
Values ==
    { NoValue, Value("currency", 5), Value("currency", 7),
      Value("currency_code_only", 0), Value("currency_null", 0),
      Value("currency_text", 0), Value("number", 3), Value("string", 0) }

Field(regions, confidence, val) ==
    [kind |-> "object", boundingRegions |-> regions, confidence |-> confidence,
     val |-> val]

FieldConfidences == { <<>>, <<90>>, <<40>> }

FieldValues ==
    {Absent, Null, Text}
    \cup {Field(r, c, NoValue) : r \in RegionLists, c \in FieldConfidences}
    \cup {Field(<<>>, <<>>, v) : v \in Values}

\* The pairs of provider fields a tree of the model carries.
NamePairs ==
    { <<"VendorName", "CustomerName">>, <<"InvoiceId", "InvoiceNumber">>,
      <<"TotalTax", "Tax">>, <<"SubTotal", "InvoiceTotal">>, <<"Subtotal", "Total">> }

FieldsOf(pair, v1, v2) ==
    [n \in ProviderNames |-> IF n = pair[1] THEN v1 ELSE IF n = pair[2] THEN v2 ELSE Absent]

NoFields == [n \in ProviderNames |-> Absent]

Descriptions == { <<>>, <<"">>, <<"d1">>, <<"d2">> }

Entry(kind, description) == [kind |-> kind, description |-> description]

\* An entry of Items.valueArray: a string, an object without valueObject, with
\* valueObject null, or with a valueObject whose Description.valueString is
\* missing, empty or a string
ItemEntries ==
    { Entry("text", <<>>), Entry("no_object", <<>>), Entry("object_null", <<>>) }
    \cup { Entry("object", d) : d \in Descriptions }

Items(kind, entries) == [kind |-> kind, entries |-> entries]

NoItems == Items("absent", <<>>)

ItemArrays ==
    { NoItems, Items("text", <<>>), Items("array_null", <<>>) }
    \cup { Items("array", e) : e \in UNION { [1..n -> ItemEntries] : n \in 0..MaxItems } }

DocumentConfidences == { <<>>, <<0>>, <<50>>, <<100>>, <<150>> }

Tree(fields, items, pages, confidence) ==
    [fields |-> fields, items |-> items, pages |-> pages, confidence |-> confidence]

\* The analysis payloads given to the mapper: two fields of a pair with every
\* combination of their values; one field on every pages list; every Items
\* array; every document confidence.
ProviderTrees ==
    { Tree(FieldsOf(p, v1, v2), NoItems, DefaultPages, <<>>) :
          p \in NamePairs, v1 \in FieldValues, v2 \in FieldValues }
    \cup { Tree(FieldsOf(<<"VendorName", "CustomerName">>, Field(r, <<>>, NoValue), Absent),
                NoItems, pages, <<>>) : r \in RegionLists, pages \in PageLists }
    \cup { Tree(NoFields, items, DefaultPages, <<>>) : items \in ItemArrays }
    \cup { Tree(NoFields, NoItems, DefaultPages, c) : c \in DocumentConfidences }

\* An item of the LLM's line_items: a string, or an object whose description
\* is missing or null, empty, or a string
LlmEntries == { Entry("text", <<>>) } \cup { Entry("object", d) : d \in Descriptions }

LlmLineItems ==
    { [kind |-> "absent", entries |-> <<>>], [kind |-> "null", entries |-> <<>>] }
    \cup { [kind |-> "list", entries |-> e] :
               e \in UNION { [1..n -> LlmEntries] : n \in 0..MaxItems } }

\* The JSON value of the reply: an object, or something else (an array)
LlmJson ==
    { [kind |-> "array"] }
    \cup { [kind |-> "object", language |-> l, document_type |-> "invoice",
            extracted |-> TRUE, line_items |-> li] :
               l \in {"absent", "null", "he"}, li \in LlmLineItems }

\* What the chat completion request does: it raises, the reply has no choice,
\* no content, content that is not JSON, or JSON
LlmReplies ==
    { [kind |-> k, result |-> [kind |-> "none"]] :
          k \in {"api_error", "no_choices", "content_null", "invalid_json"} }
    \cup { [kind |-> "json", result |-> r] : r \in LlmJson }

(***************************************************************************)
(* SpecMapper: one call of map_invoice or map_receipt on a payload, or one *)
(* call of extract_invoice_data followed by the driver's conversion         *)
(***************************************************************************)

InitMapper ==
    /\ gw = GatewayStart(DefaultMaxRetries)
    /\ fs = EmptyFs
    /\ bulk_size = DefaultBulkSize
    /\ call = IdleCall
    /\ hist = InitHist
    /\ \/ \E di \in ProviderTrees : mp = [pc |-> "input", di |-> di]
       \/ \E reply \in LlmReplies : mp = [pc |-> "prompt", reply |-> reply]

MapInvoice ==
    /\ mp.pc = "input"
    /\ mp' = [pc |-> "mapped", shape |-> "invoice", di |-> mp.di, out |-> map_invoice(mp.di)]
    /\ UNCHANGED <<gw, fs, bulk_size, call, hist>>

MapReceipt ==
    /\ mp.pc = "input"
    /\ mp' = [pc |-> "mapped", shape |-> "receipt", di |-> mp.di, out |-> map_receipt(mp.di)]
    /\ UNCHANGED <<gw, fs, bulk_size, call, hist>>

ExtractInvoiceData ==
    /\ mp.pc = "prompt"
    /\ mp' = [pc |-> "extracted", reply |-> mp.reply,
              llm_result |-> extract_invoice_data(mp.reply)]
    /\ UNCHANGED <<gw, fs, bulk_size, call, hist>>

BuildLlmRecord ==
    /\ mp.pc = "extracted"
    /\ mp' = [pc |-> "built", reply |-> mp.reply, llm_result |-> mp.llm_result,
              out |-> llm_invoice_data(mp.llm_result)]
    /\ UNCHANGED <<gw, fs, bulk_size, call, hist>>

NextMapper == MapInvoice \/ MapReceipt \/ ExtractInvoiceData \/ BuildLlmRecord

SpecMapper == InitMapper /\ [][NextMapper]_vars

(***************************************************************************)
(* Reconciliation check (mapping.py validate_invoice_data)                 *)
(*                                                                         *)
(* Amounts are in thousandths of the currency unit, so that a sum can need *)
(* rounding to two places.                                                 *)
(***************************************************************************)

\* mapping.py:294  the tolerance 0.02
Tolerance == 20

Abs(x) == IF x < 0 THEN 0 - x ELSE x

\* round(x, 2): to the nearest hundredth, a tie to the even one
round2(x) ==
    LET r == x % 10
        down == x - r
    IN  IF r < 5 THEN down
        ELSE IF r > 5 THEN down + 10
        ELSE IF (down \div 10) % 2 = 0 THEN down ELSE down + 10

\* mapping.py:293  computed = round((subtotal or 0.0) + (tax_amount or 0.0), 2)
computed_total(data) == round2(data.subtotal[1] + data.tax_amount[1])

\* mapping.py:292  the three amounts are there
has_amounts(data) ==
    data.subtotal # <<>> /\ data.tax_amount # <<>> /\ data.total # <<>>

\* mapping.py:294  abs(computed - (total or 0.0)) <= 0.02
within_tolerance(data) == Abs(computed_total(data) - data.total[1]) <= Tolerance

validate_invoice_data_substituting(data) ==
    IF has_amounts(data)
    THEN IF within_tolerance(data) THEN data
         ELSE [data EXCEPT !.total = <<computed_total(data)>>]
    ELSE data

\* mapping.py:290-297  validate_invoice_data
validate_invoice_data(data) ==
    IF has_amounts(data)
    THEN IF within_tolerance(data) THEN data
         ELSE data
    ELSE data

\* The amounts of the records given to the check: none, zero, a refund, 18,
\* 100, 100.005, and totals at 0, 0.01, 0.02, 0.03 and 1 from 118.
Amounts ==
    { <<>>, <<0>>, <<0 - 500>>, <<18000>>, <<100000>>, <<100005>>,
      <<118000>>, <<118010>>, <<118020>>, <<118030>>, <<119000>> }

\* The records given to the check, as the driver passes them on after the
\* type decision
MappedRecords ==
    [document_type : {"invoice", "other"}, supplier_name : {<<>>, <<"v">>},
     subtotal : Amounts, tax_amount : Amounts, total : Amounts]

(***************************************************************************)
(* Heuristic classifier (classifier.py classify_text)                      *)
(*                                                                         *)
(* A text is a sequence of characters; a Hebrew letter is written by its   *)
(* name.  Scores are in hundredths.                                        *)
(***************************************************************************)

\* The words of the model's texts and keywords.  The Hebrew ones, by code
\* points: heshbonit U+05D7 U+05E9 U+05D1 U+05D5 U+05E0 U+05D9 U+05EA;
\* heshbon U+05D7 U+05E9 U+05D1 U+05D5 U+05DF (it ends in a final nun);
\* mas U+05DE U+05E1; kabala U+05E7 U+05D1 U+05DC U+05D4; sakh U+05E1 U+05DA;
\* sakh_hakol U+05E1 U+05D4 " U+05DB; maam U+05DE U+05E2 " U+05DE.
Word ==
    [ invoice    |-> <<"i", "n", "v", "o", "i", "c", "e">>,
      Invoice    |-> <<"I", "n", "v", "o", "i", "c", "e">>,
      tax        |-> <<"t", "a", "x">>,
      receipt    |-> <<"r", "e", "c", "e", "i", "p", "t">>,
      sales      |-> <<"s", "a", "l", "e", "s">>,
      Sales      |-> <<"S", "a", "l", "e", "s">>,
      total      |-> <<"t", "o", "t", "a", "l">>,
      Total      |-> <<"T", "o", "t", "a", "l">>,
      subtotal   |-> <<"s", "u", "b", "t", "o", "t", "a", "l">>,
      amount     |-> <<"a", "m", "o", "u", "n", "t">>,
      due        |-> <<"d", "u", "e">>,
      heshbonit  |-> <<"het", "shin", "bet", "vav", "nun", "yod", "tav">>,
      heshbon    |-> <<"het", "shin", "bet", "vav", "final_nun">>,
      mas        |-> <<"mem", "samekh">>,
      kabala     |-> <<"qof", "bet", "lamed", "he">>,
      sakh       |-> <<"samekh", "final_kaf">>,
      sakh_hakol |-> <<"samekh", "he", "quote", "kaf">>,
      maam       |-> <<"mem", "ayin", "quote", "mem">> ]

\* " ".join(words)
RECURSIVE join(_)
join(words) ==
    IF words = <<>> THEN <<>>
    ELSE IF Len(words) = 1 THEN words[1]
    ELSE words[1] \o <<" ">> \o join(Tail(words))

\* classifier.py:9-13
RECEIPT_KEYWORDS ==
    << Word.receipt, join(<<Word.sales, Word.receipt>>), Word.kabala >>

\* classifier.py:14-21
INVOICE_KEYWORDS ==
    << Word.invoice, join(<<Word.tax, Word.invoice>>), Word.heshbonit,
       join(<<Word.heshbonit, Word.mas>>), join(<<Word.heshbonit, Word.mas, Word.kabala>>),
       Word.heshbon >>

\* classifier.py:39  the alternatives of the regular expression
MonetaryWords ==
    << Word.total, Word.subtotal, Word.tax, Word.amount, Word.sakh, Word.sakh_hakol, Word.maam >>

\* str.lower() on the characters of the model
UpperCase == [I |-> "i", S |-> "s", T |-> "t"]

lower(text) ==
    [i \in 1..Len(text) |->
        IF text[i] \in DOMAIN UpperCase THEN UpperCase[text[i]] ELSE text[i]]

\* `k in text` for strings
contains(text, k) ==
    \E i \in 0..(Len(text) - Len(k)) : SubSeq(text, i + 1, i + Len(k)) = k

\* sum(1 for k in keywords if k in text)
hits(keywords, text) ==
    Cardinality({j \in 1..Len(keywords) : contains(text, keywords[j])})

\* re.search(r"total|subtotal|...", text)
monetary(text) == \E j \in 1..Len(MonetaryWords) : contains(text, MonetaryWords[j])

\* min(1.0, 0.4 + 0.2 * n)
score_of(n) == Min(100, 40 + 20 * n)

Classified(label, score) == [label |-> label, score |-> score]

classify_text_tie_to_invoice(text) ==
    IF text = <<>> THEN Classified("uncertain", 0)
    ELSE LET receipt_hits == hits(RECEIPT_KEYWORDS, lower(text))
             invoice_hits == hits(INVOICE_KEYWORDS, lower(text))
         IN  IF receipt_hits + invoice_hits = 0
             THEN IF monetary(lower(text)) THEN Classified("uncertain", 40)
                  ELSE Classified("other", 30)
             ELSE IF receipt_hits > invoice_hits /\ receipt_hits >= 1
                  THEN Classified("receipt", score_of(receipt_hits))
             ELSE IF invoice_hits >= receipt_hits /\ invoice_hits >= 1
                  THEN Classified("invoice", score_of(invoice_hits))
             ELSE Classified("uncertain", 45)

\* classifier.py:30-49  classify_text
classify_text(text) ==
    IF text = <<>> THEN Classified("uncertain", 0)
    ELSE LET receipt_hits == hits(RECEIPT_KEYWORDS, lower(text))
             invoice_hits == hits(INVOICE_KEYWORDS, lower(text))
         IN  IF receipt_hits + invoice_hits = 0
             THEN IF monetary(lower(text)) THEN Classified("uncertain", 40)
                  ELSE Classified("other", 30)
             ELSE IF receipt_hits > invoice_hits /\ receipt_hits >= 1
                  THEN Classified("receipt", score_of(receipt_hits))
             ELSE IF invoice_hits > receipt_hits /\ invoice_hits >= 1
                  THEN Classified("invoice", score_of(invoice_hits))
             ELSE Classified("uncertain", 45)

\* Texts have up to MaxWords words.
MaxWords == 4

TextWords ==
    { Word.Invoice, Word.tax, Word.receipt, Word.Sales, Word.Total, Word.due,
      Word.heshbonit, Word.mas, Word.kabala }

\* The texts given to the classifier: the empty text and every sequence of
\* up to MaxWords words
Texts == { join(ws) : ws \in UNION { [1..n -> TextWords] : n \in 0..MaxWords } }

(***************************************************************************)
(* SpecPure: one call of validate_invoice_data or of classify_text          *)
(***************************************************************************)

InitPure ==
    /\ gw = GatewayStart(DefaultMaxRetries)
    /\ fs = EmptyFs
    /\ bulk_size = DefaultBulkSize
    /\ call = IdleCall
    /\ hist = InitHist
    /\ \/ \E data \in MappedRecords : mp = [pc |-> "record", data |-> data]
       \/ \E text \in Texts : mp = [pc |-> "text", text |-> text]

ValidateInvoiceData ==
    /\ mp.pc = "record"
    /\ mp' = [pc |-> "validated", data |-> mp.data, out |-> validate_invoice_data(mp.data)]
    /\ UNCHANGED <<gw, fs, bulk_size, call, hist>>

ClassifyText ==
    /\ mp.pc = "text"
    /\ mp' = [pc |-> "classified", text |-> mp.text, result |-> classify_text(mp.text)]
    /\ UNCHANGED <<gw, fs, bulk_size, call, hist>>

NextPure == ValidateInvoiceData \/ ClassifyText

SpecPure == InitPure /\ [][NextPure]_vars

(***************************************************************************)
(* SpecConcurrent: requests served by one event loop                       *)
(*                                                                         *)
(* The handlers of main.py are coroutines of one event loop: a request     *)
(* runs until it awaits a remote call, and another request can run until   *)
(* that call has ended.  Reading a local file, mapping and                 *)
(* _move_to_processed contain no await.  Here `call` holds one invocation  *)
(* of the batch driver per request, and `hist` the moves made.             *)
(***************************************************************************)

\* The number of batch requests in progress at the same time.
MaxInvocations == 2

Invocations == 1..MaxInvocations

\* An invocation of the batch driver.
\*   pc       "idle" (the request has not arrived), "between" (at the top of the
\*            for loop), "awaiting" (suspended in a remote call), "returned"
\*   stage    the remote call awaited: "invoice" (analyze_invoice), "read"
\*            (analyze_read), "llm" (extract_invoice_data)
\*   i        iterations of the for loop completed
IdleInvocation ==
    [pc |-> "idle", mode |-> "di", recursive |-> FALSE, window |-> <<>>,
     i |-> 0, stage |-> "none", results |-> <<>>]

\* History of the requests.
\*   moves     how often each file was moved
\*   lost      files whose content a move has replaced
\*   inflight  for each invocation, the files of its window (by position) that
\*             have a remote call in flight
InitMoves ==
    [moves |-> [f \in FileIds |-> 0], lost |-> {},
     inflight |-> [c \in Invocations |-> {}]]

\* The directory when the requests arrive: a.ext and possibly a_1.ext in the
\* input directory, and possibly an a.ext moved to processed/ earlier.
InitialFiles ==
    [p \in {Path(0, <<"a">>), Path(0, <<"a", 1>>), Path(1, <<"a">>)} |->
        IF p.d = 1 THEN 3 ELSE Len(p.n)]

InitialFileSystems ==
    { [p \in S |-> InitialFiles[p]] :
          S \in {T \in SUBSET DOMAIN InitialFiles : Path(0, <<"a">>) \in T} }

\* The history after a move of src to dst in the file system fsys.
moved(h, fsys, src, dst) ==
    [h EXCEPT !.moves = [@ EXCEPT ![fsys[src]] = @ + 1],
              !.lost = IF Exists(fsys, dst) THEN @ \cup {fsys[dst]} ELSE @]

\* pipeline.py:284, :290, :419, :492, :498  results.append(...) ends the
\* iteration of invocation c for its file; newfs is the file system left by
\* the iteration
FileDone(c, source_path, cause, newfs) ==
    LET inv == call[c]
        uri == inv.window[inv.i + 1]
        rec == [uri |-> uri, source_path |-> source_path, cause |-> cause]
        h == [hist EXCEPT !.inflight[c] = {}]
    IN  /\ call' = [call EXCEPT ![c] =
                       [inv EXCEPT !.results = Append(@, rec),
                                   !.i = @ + 1,
                                   !.stage = "none",
                                   !.pc = IF inv.i + 1 >= Len(inv.window)
                                          THEN "returned" ELSE "between"]]
        /\ fs' = newfs
        /\ hist' = IF newfs # fs THEN moved(h, fs, uri, source_path) ELSE h

\* main.py:43-69, pipeline.py:227-238 and :332-344  a request arrives: the
\* handler runs discovery and takes its window
process(c) ==
    /\ call[c].pc = "idle"
    /\ \E mode \in {"di", "llm"}, recursive \in BOOLEAN :
          LET uris == discover_local(fs, recursive)
              uris_to_process == window(uris, 0, bulk_size)
          IN  call' = [call EXCEPT ![c] =
                          [IdleInvocation EXCEPT
                              !.pc = IF uris_to_process = <<>> THEN "returned" ELSE "between",
                              !.mode = mode, !.recursive = recursive,
                              !.window = uris_to_process]]
    /\ UNCHANGED <<gw, fs, bulk_size, hist, mp>>

BeginFile_without_waiting(c) ==
    LET inv == call[c]
        n == inv.i + Cardinality(hist.inflight[c]) + 1
    IN  /\ inv.pc \in {"between", "awaiting"}
        /\ n <= Len(inv.window)
        /\ call' = [call EXCEPT ![c] = [inv EXCEPT !.pc = "awaiting", !.stage = "invoice"]]
        /\ hist' = [hist EXCEPT !.inflight[c] = @ \cup {n}]
        /\ UNCHANGED <<gw, fs, bulk_size, mp>>

\* pipeline.py:239-246 and :346-352  the loop takes its next file, reads it
\* and calls analyze_invoice, where it is suspended; when the file is no
\* longer there the read raises and the iteration ends in the except branch
BeginFile(c) ==
    LET inv == call[c]
        uri == inv.window[inv.i + 1]
    IN  /\ inv.pc = "between"
        /\ IF ~Exists(fs, uri)
           THEN /\ FileDone(c, uri, "raised", fs)
                /\ UNCHANGED <<gw, bulk_size, mp>>
           ELSE /\ call' = [call EXCEPT ![c] =
                               [inv EXCEPT !.pc = "awaiting", !.stage = "invoice"]]
                /\ hist' = [hist EXCEPT !.inflight[c] = @ \cup {inv.i + 1}]
                /\ UNCHANGED <<gw, fs, bulk_size, mp>>

\* pipeline.py:276-284 and :484-492  the synchronous end of an iteration:
\* _move_to_processed and results.append
MoveAndFinish(c) ==
    \E move_ok \in BOOLEAN :
        LET uri == call[c].window[call[c].i + 1]
            m == _move_to_processed(fs, uri, move_ok)
        IN  FileDone(c, m.path, "none", m.fs)

\* The next remote call of the same iteration is awaited.
AwaitNext(c, stage) ==
    /\ call' = [call EXCEPT ![c].stage = stage]
    /\ UNCHANGED <<fs, hist>>

\* pipeline.py:246-306 and :352-516  the remote call that invocation c awaits
\* ends, and the coroutine runs on to its next await or to the end of the
\* iteration
RemoteCallEnds(c) ==
    LET inv == call[c]
        uri == inv.window[inv.i + 1]
    IN  /\ inv.pc = "awaiting"
        /\ UNCHANGED <<gw, bulk_size, mp>>
        /\ IF inv.stage = "llm"
           THEN \E llm \in LlmResults :
                   IF llm = "invalid" THEN FileDone(c, uri, "raised", fs)
                   ELSE MoveAndFinish(c)
           ELSE \E script \in ReadScripts :
                   IF AnalyzeFailed(analyze(script)) THEN FileDone(c, uri, "raised", fs)
                   ELSE IF inv.mode = "di" THEN MoveAndFinish(c)
                   ELSE IF inv.stage = "invoice" THEN AwaitNext(c, "read")
                   ELSE \E has_text \in BOOLEAN :
                           IF has_text THEN AwaitNext(c, "llm")
                           ELSE FileDone(c, uri, "none", fs)

\* main.py:425-447  the save handler moves a document that is in the input
\* directory to processed/
save_invoices_batch ==
    /\ \E p \in DOMAIN fs, move_ok \in BOOLEAN :
          LET m == _move_to_processed(fs, p, move_ok)
          IN  /\ p.d = 0
              /\ m.fs # fs
              /\ fs' = m.fs
              /\ hist' = moved(hist, fs, p, m.path)
    /\ UNCHANGED <<gw, bulk_size, call, mp>>

InitConcurrent ==
    /\ gw = GatewayStart(DefaultMaxRetries)
    /\ fs \in InitialFileSystems
    /\ bulk_size = DefaultBulkSize
    /\ call = [c \in Invocations |-> IdleInvocation]
    /\ hist = InitMoves
    /\ mp = IdleMapper

NextConcurrent ==
    \/ \E c \in Invocations : process(c)
    \/ \E c \in Invocations : BeginFile(c)
    \/ \E c \in Invocations : RemoteCallEnds(c)
    \/ save_invoices_batch

SpecConcurrent == InitConcurrent /\ [][NextConcurrent]_vars

(***************************************************************************)
(* Properties of the gateway (checked under SpecGateway)                   *)
(***************************************************************************)

\* C4: once a submit was accepted with an operation handle, the handle is
\* polled at most 60 times; a poll answering succeeded, failed or
\* partiallySucceeded ends the call by returning that payload (no error, the
\* same for all three); a non-terminal poll is followed by a sleep of 1 second
\* and then by the next poll; after the sleep that follows the 60th
\* non-terminal poll the call fails with a timeout error, and a timeout never
\* happens earlier.
PollingContract ==
    [][ /\ gw'.polls <= MaxPolls
        /\ (gw.pc = "post" /\ gw'.pc = "get") => gw'.polls = 0
        /\ (gw.pc = "get" /\ gw'.status = 200 /\ gw'.op_state \in TerminalStates)
              => /\ gw'.pc = "returned"
                 /\ gw'.payload = gw'.op_state
                 /\ gw'.err = "none"
        /\ (gw.pc = "get" /\ gw'.status = 200 /\ gw'.op_state \notin TerminalStates)
              => /\ gw'.pc = "poll_sleep"
                 /\ gw'.sleep_for = 1
                 /\ gw'.polls = gw.polls + 1
        /\ (gw.pc = "poll_sleep" /\ gw.polls < 60)
              => gw'.pc = "get" /\ gw'.polls = gw.polls
        /\ (gw.pc = "poll_sleep" /\ gw.polls >= 60)
              => gw'.pc = "raised" /\ gw'.err = "TimeoutError"
        /\ gw'.err = "TimeoutError" => gw'.polls = 60
      ]_vars

\* C4 witness: 60 polls of one handle were all non-terminal and the call timed out.
PollBudgetExhausted ==
    /\ gw.pc = "raised"
    /\ gw.err = "TimeoutError"
    /\ gw.polls = 60
    /\ gw.handles = 1

FatalSubmitStatus ==
    [][ /\ (gw.pc = "post" /\ gw'.status \notin (200..299) \cup {0, 429})
              => /\ gw'.pc = "raised"
                 /\ gw'.err = "HTTPStatusError"
                 /\ gw'.sleep_for = 0
                 /\ gw'.retry_sleeps = gw.retry_sleeps
        /\ gw.pc # "raised"
      ]_vars

\* C6 witness: the second submit was answered 500 and the call has failed
\* without ever polling.
ServerErrorAtSecondAttempt ==
    /\ gw.pc = "raised"
    /\ gw.err = "HTTPStatusError"
    /\ gw.status = 500
    /\ gw.attempt = 1
    /\ gw.submits = 2
    /\ gw.handles = 0

Degraded(r) == r.document_type = "other" /\ r.confidence = "0.0" /\ ~r.extracted

Range(seq) == {seq[k] : k \in 1..Len(seq)}

LastRecord == call.results[Len(call.results)]

\* C1: when process_path has been called with starting_point = 0, W, 2W, ...
\* up to the number N of files present at the first call, every one of the N
\* files was processed exactly once and the files_handled of the calls add
\* up to N.
CursorCoversEveryFile ==
    (/\ call.pc = "returned"
     /\ hist.run.active
     /\ hist.run.next >= Cardinality(hist.run.files))
        => /\ hist.run.sum = Cardinality(hist.run.files)
           /\ \A c \in hist.run.files : hist.run.times[c] = 1

\* C2: whatever fails for a file, the invocation goes on to its return, and
\* results holds one record per file iterated, in window order: at the return
\* len(results) = files_handled.
OneRecordPerFile ==
    /\ call.i <= call.files_handled
    /\ Len(call.results) = call.i
    /\ \A k \in 1..Len(call.results) : call.results[k].uri = call.window[k]
    /\ call.pc = "returned" => Len(call.results) = call.files_handled
    /\ call.pc = "running" => call.i < call.files_handled

\* C2 witness: both files of a window failed, at different steps, and the
\* invocation returned two records.
TwoFailuresTwoRecords ==
    /\ call.pc = "returned"
    /\ call.files_handled = 2
    /\ Len(call.results) = 2
    /\ call.results[1].cause = "read"
    /\ call.results[2].cause = "analyze"

\* C3 (amended): in process_path a file whose submit is answered 429 and then
\* accepted gets a non-degraded record after two submits (unless a later step
\* of that file raises); a file whose three submits are all answered 429 gets
\* the sentinel; and every file of the window that did not itself fail has a
\* non-degraded record, whatever happened to the others, whose source_path is
\* its uri or its own name, possibly with a suffix _k, in its processed
\* directory.
RateLimitAffectsOneFile ==
    call.mode = "di" =>
        /\ (call.i > 0 /\ call.script = "429_then_ok" /\ LastRecord.cause # "post")
              => /\ ~Degraded(LastRecord)
                 /\ LastRecord.cause = "none"
                 /\ gw.pc = "returned"
                 /\ gw.submits = 2
        /\ (call.i > 0 /\ call.script = "429_always")
              => /\ Degraded(LastRecord)
                 /\ LastRecord.source_path = LastRecord.uri
                 /\ gw.pc = "raised"
                 /\ gw.submits = DefaultMaxRetries
        /\ \A k \in 1..Len(call.results) :
              LET r == call.results[k]
              IN  /\ r.cause = "none" <=> ~Degraded(r)
                  /\ r.cause = "none" =>
                        \/ r.source_path = r.uri
                        \/ /\ r.source_path.d = r.uri.d + 1
                           /\ \/ r.source_path.n = r.uri.n
                              \/ \E c \in 1..(MaxFiles + 1) :
                                    r.source_path.n = Append(r.uri.n, c)

\* C3 as stated: in addition, the record of the file processed after a file
\* that was rate-limited on all its submits is the record it would have got had
\* that file been processed and moved.
RateLimitedFileLeavesOthersUnchanged ==
    /\ []RateLimitAffectsOneFile
    /\ [][(/\ call.pc = "running"
           /\ call.mode = "di"
           /\ call.i >= 1
           /\ call.script = "429_always"
           /\ call'.i = call.i + 1
           /\ call'.results[call'.i].cause = "none")
          => LET failed == call.window[call.i]
                 uri == call.window[call.i + 1]
                 as_if == _move_to_processed(fs, failed, TRUE).fs
             IN  call'.results[call'.i].source_path \in {uri, destination(as_if, uri)}]_vars

\* C3 witness: the second file of a window was rate-limited on all its
\* submits and got the sentinel; the first file has a normal record.
SentinelForRateLimitedFileOnly ==
    /\ call.mode = "di"
    /\ call.i = 2
    /\ call.script = "429_always"
    /\ Degraded(call.results[2])
    /\ ~Degraded(call.results[1])
    /\ call.results[1].document_type = "invoice"

\* C8: an invocation with starting_point s and window size W on a discovered
\* list of N files has total_files = N, files_handled = max(0, min(s+W, N) - s),
\* processes the files at the indices s .. min(s+W, N) - 1 of the list in that
\* order, leaves every other file as it was, and for s >= N processes and
\* moves nothing.
WindowIsSlice ==
    call.pc # "idle" =>
        LET N == Len(call.uris)
            s == call.starting_point
            e == IF s + bulk_size < N THEN s + bulk_size ELSE N
        IN  /\ call.total_files = N
            /\ call.files_handled = IF e - s > 0 THEN e - s ELSE 0
            /\ Len(call.window) = call.files_handled
            /\ \A k \in 1..call.files_handled : call.window[k] = call.uris[s + k]
            /\ \A k \in 1..Len(call.results) : call.results[k].uri = call.uris[s + k]
            /\ \A p \in DOMAIN call.fs0 :
                  p \notin Range(call.window) => Exists(fs, p) /\ fs[p] = call.fs0[p]
            /\ s >= N => call.results = <<>> /\ fs = call.fs0 /\ call.pc = "returned"

\* C8 witness: two files, starting_point 1 and window size 2: the window is cut
\* at the end of the list, its one file was processed and moved.
WindowCutAtEndOfList ==
    /\ call.pc = "returned"
    /\ call.starting_point = 1
    /\ bulk_size = 2
    /\ call.total_files = 2
    /\ call.files_handled = 1
    /\ call.results[1].source_path # call.results[1].uri
    /\ Exists(fs, call.uris[1])

\* C9: discovery never returns a file that an earlier invocation moved to
\* processed/, with recursive = false and with recursive = true.
MovedFilesStayOut == call.rediscovered = {}

\* C10: a move never replaces a file of the processed directory: the
\* destination is the file's own name when that is free there, and otherwise
\* name_k for the smallest k >= 1 that is free.
MoveNeverOverwrites ==
    /\ hist.lost = {}
    /\ hist.last_move # <<>> =>
          LET m == hist.last_move[1]
          IN  /\ m.dst.d = m.src.d + 1
              /\ m.dst.n \notin m.taken
              /\ IF m.src.n \notin m.taken
                 THEN m.dst.n = m.src.n
                 ELSE \E k \in 1..(Cardinality(m.taken) + 1) :
                         /\ m.dst.n = Append(m.src.n, k)
                         /\ \A j \in 1..(k - 1) : Append(m.src.n, j) \in m.taken

\* C10 witness: two files of the same name were moved one after the other;
\* processed/ holds name.ext and name_1.ext with the two contents.
SameNameMovedTwice ==
    /\ Exists(fs, Path(1, <<"a">>))
    /\ Exists(fs, Path(1, <<"a", 1>>))
    /\ fs[Path(1, <<"a">>)] = 1
    /\ fs[Path(1, <<"a", 1>>)] = 2
    /\ hist.last_move # <<>>
    /\ hist.last_move[1].src = Path(0, <<"a">>)
    /\ hist.last_move[1].dst = Path(1, <<"a", 1>>)

\* C11: an iteration of the loop changes the file system only by moving its
\* own file, which is then a local file whose processing did not raise; a file
\* that got the sentinel is left where it is with its content, and an s3://
\* object is never moved and its record keeps the uri.
MovedOnlyOnSuccess ==
    [][(call.pc = "running" /\ call'.i = call.i + 1)
          => LET uri == call.window[call.i + 1]
                 r == call'.results[Len(call'.results)]
             IN  /\ fs' # fs => /\ ~IsS3(uri)
                                /\ r.cause = "none"
                                /\ r.source_path # uri
                                /\ fs' = rename(fs, uri, r.source_path)
                 /\ r.cause # "none" => fs' = fs /\ r.source_path = uri
                 /\ IsS3(uri) => fs' = fs /\ r.source_path = uri]_vars

\* C11 witness: of the two local files of a window the first failed in its
\* analysis and is still in the input directory, the second was moved.
FailedFileStaysSecondMoved ==
    /\ call.pc = "returned"
    /\ Len(call.results) = 2
    /\ call.results[1].cause = "analyze"
    /\ Exists(fs, call.window[1])
    /\ fs[call.window[1]] = call.fs0[call.window[1]]
    /\ call.results[2].cause = "none"
    /\ call.results[2].source_path # call.window[2]
    /\ ~Exists(fs, call.window[2])

\* C12: the record of a file whose processing raised is the sentinel: the uri
\* of that file as source_path, document_type "other", confidence 0.0, no
\* extracted value and no page count, at whichever step the exception came.
FailureRecordIsSentinel ==
    \A k \in 1..Len(call.results) :
        LET r == call.results[k]
        IN  r.cause # "none" =>
               /\ r.uri = call.window[k]
               /\ r.source_path = call.window[k]
               /\ r.document_type = "other"
               /\ r.confidence = "0.0"
               /\ ~r.extracted
               /\ r.page_count = "null"
               /\ r.language = IF call.mode = "di" THEN "en" ELSE "unknown"

\* C12 witness: a file was analysed, its payload held values, and a later step
\* of its iteration raised.
SentinelAfterSuccessfulAnalysis ==
    /\ call.i >= 1
    /\ call.script = "ok"
    /\ gw.payload = "succeeded"
    /\ LastRecord.cause = "post"
    /\ Degraded(LastRecord)

(***************************************************************************)
(* Properties of the mapper and the normalizer (checked under SpecMapper)  *)
(***************************************************************************)

\* A mapper call has returned a record.
Mapped == mp.pc = "mapped" /\ ~mp.out.raised

\* The field_mapping of the mapper that was called.
MappingUsed == IF mp.shape = "invoice" THEN InvoiceFieldMapping ELSE ReceiptFieldMapping

\* C13: map_invoice and map_receipt return a record for every payload: they
\* never raise.
MapperNeverRaises == mp.pc = "mapped" => ~mp.out.raised

\* C14: extract_invoice_data returns to its caller whatever the request does:
\* the parsed JSON of the reply, or, when the request raised or the reply has
\* no choice, no content or content that is not JSON, the fixed structure with
\* language "unknown", document_type "other", no extracted field and an empty
\* line_items list.
NormalizerNeverRaises ==
    mp.pc \in {"extracted", "built"} =>
        /\ mp.llm_result.kind # "raised"
        /\ mp.reply.kind = "json" => mp.llm_result = mp.reply.result
        /\ mp.reply.kind # "json" =>
              /\ mp.llm_result.kind = "object"
              /\ mp.llm_result.language = "unknown"
              /\ mp.llm_result.document_type = "other"
              /\ ~mp.llm_result.extracted
              /\ mp.llm_result.line_items = [kind |-> "list", entries |-> <<>>]

\* C14 witness: the reply was not JSON and the caller went on with the fixed
\* structure.
FixedStructureAfterInvalidJson ==
    /\ mp.pc = "built"
    /\ mp.reply.kind = "invalid_json"
    /\ ~mp.out.raised
    /\ mp.out.language = "unknown"
    /\ mp.out.line_items = <<>>

\* C15: the bounding box stored under a canonical name is the box of the first
\* provider field, in the order of field_mapping, that is present, maps to that
\* name and yields a box.
FirstBoxWins ==
    Mapped =>
        LET page_dims == _get_page_dimensions(mp.di)
            box(k) == _extract_bounding_box(mp.di.fields[MappingUsed[k][1]], page_dims)
            yields(k) == Present(mp.di.fields[MappingUsed[k][1]]) /\ box(k) # <<>>
        IN  \A k \in 1..Len(MappingUsed) :
               (/\ yields(k)
                /\ \A j \in 1..(k - 1) : MappingUsed[j][2] = MappingUsed[k][2] => ~yields(j))
                  => /\ MappingUsed[k][2] \in DOMAIN mp.out.bounding_boxes
                     /\ mp.out.bounding_boxes[MappingUsed[k][2]] = box(k)[1]

\* C16: the confidence stored under a canonical name is the confidence of the
\* first provider field, in the order of field_mapping, that is present, maps
\* to that name and carries a confidence; there is none when no such field
\* carries one.
FirstConfidenceWins ==
    Mapped =>
        LET conf(k) == _extract_field_confidence(mp.di.fields[MappingUsed[k][1]])
            carries(k) == Present(mp.di.fields[MappingUsed[k][1]]) /\ conf(k) # <<>>
        IN  /\ \A k \in 1..Len(MappingUsed) :
                  (/\ carries(k)
                   /\ \A j \in 1..(k - 1) :
                         MappingUsed[j][2] = MappingUsed[k][2] => ~carries(j))
                     => /\ MappingUsed[k][2] \in DOMAIN mp.out.field_confidence
                        /\ mp.out.field_confidence[MappingUsed[k][2]] = conf(k)[1]
            /\ \A name \in DOMAIN mp.out.field_confidence :
                  \E k \in 1..Len(MappingUsed) : MappingUsed[k][2] = name /\ carries(k)

\* C16 witness: a receipt carries TotalTax with confidence 0.90 and Tax with
\* confidence 0.40; tax_amount has 0.90.
TotalTaxConfidenceKept ==
    /\ Mapped
    /\ mp.shape = "receipt"
    /\ IsObject(mp.di.fields["TotalTax"])
    /\ IsObject(mp.di.fields["Tax"])
    /\ mp.di.fields["TotalTax"].confidence = <<90>>
    /\ mp.di.fields["Tax"].confidence = <<40>>
    /\ mp.out.field_confidence["tax_amount"] = 90

\* The payload has an entry with width and height for page n.
HasPageDimensions(di, n) ==
    /\ di.pages.kind = "list"
    /\ \E k \in 1..Len(di.pages.list) :
          /\ di.pages.list[k].pageNumber \in {<<n>>} \cup (IF n = 1 THEN {<<>>} ELSE {})
          /\ di.pages.list[k].width # <<>>
          /\ di.pages.list[k].height # <<>>

\* The page the first bounding region of a field refers to.
PageOfField(field) ==
    IF field.boundingRegions[1].pageNumber = <<>> THEN 1
    ELSE field.boundingRegions[1].pageNumber[1]

\* C17: no bounding box is stored under a canonical name when, for every
\* provider field mapped to it that has a bounding region, the payload has no
\* width and height for the page of the field's first region.
NoBoxWithoutPageDimensions ==
    Mapped =>
        \A name \in DOMAIN mp.out.bounding_boxes :
            \E k \in 1..Len(MappingUsed) :
                LET field == mp.di.fields[MappingUsed[k][1]]
                IN  /\ MappingUsed[k][2] = name
                    /\ IsObject(field)
                    /\ field.boundingRegions # <<>>
                    /\ HasPageDimensions(mp.di, PageOfField(field))

\* A normalized coordinate <<value, dimension>> lies in [0, 1].
InUnitInterval(c) == c[2] > 0 /\ 0 <= c[1] /\ c[1] <= c[2]

\* C18: every bounding box of a record, for a payload that has the dimensions
\* of the page, has exactly four points with every coordinate in [0, 1].
BoxesAreUnitQuadrilaterals ==
    Mapped =>
        \A name \in DOMAIN mp.out.bounding_boxes :
            LET box == mp.out.bounding_boxes[name]
            IN  HasPageDimensions(mp.di, box.page_number) =>
                   /\ Len(box.polygon) = 4
                   /\ \A k \in 1..Len(box.polygon) :
                         InUnitInterval(box.polygon[k].x) /\ InUnitInterval(box.polygon[k].y)

\* C19: tax_amount is the amount of TotalTax when that field yields one, and
\* otherwise the amount of Tax, in map_invoice and in map_receipt.
TaxFallsBackToGenericField ==
    Mapped =>
        mp.out.tax_amount =
            IF get_currency_value(mp.di.fields["TotalTax"]).amount # <<>>
            THEN get_currency_value(mp.di.fields["TotalTax"]).amount
            ELSE get_currency_value(mp.di.fields["Tax"]).amount

\* The positions of the entries that have a non-empty description.
Described(entries) ==
    {k \in 1..Len(entries) :
        entries[k].kind = "object" /\ entries[k].description \notin {<<>>, <<"">>}}

\* The k-th smallest element of a set of numbers.
Nth(S, k) == CHOOSE p \in S : Cardinality({q \in S : q <= p}) = k

\* C20: the line items of a record are the entries of the input that have a
\* non-empty description, in their order, and no other: in the mapper (both
\* shapes) and in the record built from the LLM result.
OnlyDescribedItems ==
    /\ Mapped =>
          LET entries == item_entries(mp.di)
          IN  /\ Len(mp.out.line_items) = Cardinality(Described(entries))
              /\ \A k \in 1..Len(mp.out.line_items) :
                    /\ mp.out.line_items[k].description \notin {<<>>, <<"">>}
                    /\ mp.out.line_items[k].description
                          = entries[Nth(Described(entries), k)].description
    /\ (mp.pc = "built" /\ ~mp.out.raised) =>
          LET entries == llm_entries(mp.llm_result)
          IN  /\ Len(mp.out.line_items) = Cardinality(Described(entries))
              /\ \A k \in 1..Len(mp.out.line_items) :
                    /\ mp.out.line_items[k].description # ""
                    /\ <<mp.out.line_items[k].description>>
                          = entries[Nth(Described(entries), k)].description

\* C20 witness: of two entries of Items the first has an empty description;
\* the record has the second one only.
EmptyDescriptionDropped ==
    /\ Mapped
    /\ Len(item_entries(mp.di)) = 2
    /\ item_entries(mp.di)[1] = Entry("object", <<"">>)
    /\ item_entries(mp.di)[2] = Entry("object", <<"d1">>)
    /\ mp.out.line_items = << [description |-> <<"d1">>] >>

(***************************************************************************)
(* Properties of the type decision, the reconciliation check and the       *)
(* classifier                                                              *)
(***************************************************************************)

\* C21: a record of process_path that went through the mapper is typed
\* "invoice" exactly when one of invoice_number, total and supplier_name is
\* non-null, a total of 0.0 and an empty supplier name included.
TypedByNonNullFields ==
    call.mode = "di" =>
        \A k \in 1..Len(call.results) :
            call.results[k].cause = "none" =>
                (call.results[k].document_type = "invoice" <=> call.results[k].extracted)

\* C22: validate_invoice_data returns the record it was given, every field
\* unchanged, whether the amounts are there or not and whether
\* round(subtotal + tax_amount, 2) is within 0.02 of total or not.
ValidationChangesNothing ==
    mp.pc = "validated" => mp.out = mp.data

\* C22 witness: subtotal 100.00 and tax 18.00 against a total of 119.00, a
\* mismatch of 1.00; the record came back with its total.
MismatchKeepsTotal ==
    /\ mp.pc = "validated"
    /\ mp.data.subtotal = <<100000>>
    /\ mp.data.tax_amount = <<18000>>
    /\ mp.data.total = <<119000>>
    /\ ~within_tolerance(mp.data)
    /\ mp.out.total = <<119000>>

\* C23: classify_text follows the decision table: the empty text gives
\* (uncertain, 0.0); no keyword hit gives (uncertain, 0.4) when the text has a
\* monetary word and (other, 0.3) when not; more receipt hits than invoice
\* hits give (receipt, min(1.0, 0.4 + 0.2 * receipt hits)), more invoice hits
\* (invoice, min(1.0, 0.4 + 0.2 * invoice hits)), as many of each, not zero,
\* (uncertain, 0.45); the score lies in [0, 1].  The hits of a set are its
\* keywords found in the lower-cased text.
DecisionTable ==
    mp.pc = "classified" =>
        LET text == lower(mp.text)
            r == hits(RECEIPT_KEYWORDS, text)
            v == hits(INVOICE_KEYWORDS, text)
            label == mp.result.label
            score == mp.result.score
        IN  /\ mp.text = <<>> => label = "uncertain" /\ score = 0
            /\ (mp.text # <<>> /\ r + v = 0 /\ monetary(text))
                  => label = "uncertain" /\ score = 40
            /\ (mp.text # <<>> /\ r + v = 0 /\ ~monetary(text))
                  => label = "other" /\ score = 30
            /\ (mp.text # <<>> /\ r > v)
                  => label = "receipt" /\ score = (IF 40 + 20 * r > 100 THEN 100 ELSE 40 + 20 * r)
            /\ (mp.text # <<>> /\ v > r)
                  => label = "invoice" /\ score = (IF 40 + 20 * v > 100 THEN 100 ELSE 40 + 20 * v)
            /\ (mp.text # <<>> /\ r = v /\ r > 0)
                  => label = "uncertain" /\ score = 45
            /\ score \in 0..100

\* C23 witness: "tax Invoice <heshbonit> <mas>" has four invoice keywords and
\* no receipt keyword; 0.4 + 0.2 * 4 is cut to 1.0.
FourInvoiceKeywordsCapped ==
    /\ mp.pc = "classified"
    /\ mp.text = join(<<Word.tax, Word.Invoice, Word.heshbonit, Word.mas>>)
    /\ hits(INVOICE_KEYWORDS, lower(mp.text)) = 4
    /\ mp.result = Classified("invoice", 100)

\* C24: "Invoice Invoice Total due" is classified (invoice, 0.8): the two
\* occurrences of the keyword count as two hits.
EachOccurrenceCounts ==
    (mp.pc = "classified" /\ mp.text = join(<<Word.Invoice, Word.Invoice, Word.Total, Word.due>>))
        => mp.result = Classified("invoice", 80)

\* C26: once a submit of the call was accepted with an operation handle, the
\* call makes no further submit request.
NoSubmitAfterAccept ==
    [][gw.handles >= 1 => gw'.submits = gw.submits]_vars

\* C27: an analyze call makes at most max_retries submit requests and at most
\* 60 poll requests per handle, never returns None, and ends: it returns or
\* raises.
AnalyzeTerminates ==
    /\ [](/\ gw.submits <= gw.max_retries
          /\ gw.polls <= MaxPolls
          /\ gw.pc = "returned" => gw.payload # "None")
    /\ <>(gw.pc \in {"returned", "raised"})

\* C27 witness: the call returned the payload of its third submit after two
\* rate-limited ones and 60 polls.
ReturnedAtTheLastPoll ==
    /\ gw.pc = "returned"
    /\ gw.max_retries = 3
    /\ gw.submits = 3
    /\ gw.n429 = 2
    /\ gw.polls = MaxPolls
    /\ gw.payload = "succeeded"

(***************************************************************************)
(* Properties of the records and the moved files (checked under Spec)      *)
(***************************************************************************)

\* C28: every record of a local file that existed at discovery names in
\* source_path the place where the file's content now is: its place in the
\* processed directory, with file_url pointing there, when it was moved, and
\* its original place when it got the sentinel or the empty-OCR record or its
\* move failed.
RecordsNameTheFile ==
    \A k \in 1..Len(call.results) :
        LET r == call.results[k]
            uri == call.window[k]
        IN  (~IsS3(uri) /\ Exists(call.fs0, uri)) =>
               /\ Exists(fs, r.source_path)
               /\ fs[r.source_path] = call.fs0[uri]
               /\ r.source_path # uri =>
                     /\ r.source_path.d = uri.d + 1
                     /\ r.file_url = <<r.source_path>>
               /\ (r.cause # "none" \/ r.confidence = "0.0") => r.source_path = uri
               /\ (k = Len(call.results) /\ hist.move = "failed") => r.source_path = uri

\* C28 witness: the first file of the window was moved, the move of the
\* second failed; both records name the place of their file.
MovedAndFailedMove ==
    /\ call.pc = "returned"
    /\ Len(call.results) = 2
    /\ call.results[1].source_path = Path(1, call.window[1].n)
    /\ call.results[1].file_url = << Path(1, call.window[1].n) >>
    /\ hist.move = "failed"
    /\ call.results[2].cause = "none"
    /\ call.results[2].source_path = call.window[2]
    /\ Exists(fs, call.window[2])

\* The last iteration gave a record without extracted data that is not the
\* sentinel or the empty-OCR record, for a local file: in process_path the
\* provider's terminal status was "failed", in process_path_with_llm the
\* normalizer returned the fixed structure.
NoDataRecord ==
    /\ call.i >= 1
    /\ call.i = Len(call.results)
    /\ ~IsS3(call.window[call.i])
    /\ Exists(call.fs0, call.window[call.i])
    /\ LastRecord.cause = "none"
    /\ \/ call.mode = "di" /\ gw.payload = "failed"
       \/ call.mode = "llm" /\ ~LastRecord.extracted /\ LastRecord.page_count = "n"
                            /\ LastRecord.file_url # <<>>

\* The file of the last iteration is in the processed directory, the record
\* names it there, and a non-recursive discovery does not return it.
LastFileMoved ==
    LET uri == call.window[call.i]
    IN  /\ LastRecord.source_path.d = uri.d + 1
        /\ Exists(fs, LastRecord.source_path)
        /\ fs[LastRecord.source_path] = call.fs0[uri]
        /\ \A p \in Range(discover_local(fs, FALSE)) : fs[p] # call.fs0[uri]

\* C29 as stated: a local file whose record has no extracted data, without
\* being the sentinel, has document_type "other" (and confidence null in
\* process_path_with_llm) and is moved to processed.
NoDataFileIsMoved ==
    NoDataRecord =>
        /\ LastRecord.document_type = "other"
        /\ LastRecord.confidence = "null"
        /\ LastFileMoved

\* C29 (amended): such a file has document_type "other" and confidence null,
\* and its move is tried: it is moved to processed, unless mkdir or the move
\* raises, and then it stays in its place with the record naming that place.
NoDataFileIsMovedUnlessMoveFails ==
    NoDataRecord =>
        /\ LastRecord.document_type = "other"
        /\ LastRecord.confidence = "null"
        /\ hist.move \in {"done", "failed"}
        /\ hist.move = "done" => LastFileMoved
        /\ hist.move = "failed" =>
              /\ LastRecord.source_path = call.window[call.i]
              /\ Exists(fs, call.window[call.i])
              /\ fs[call.window[call.i]] = call.fs0[call.window[call.i]]

\* C29 witness: the provider ended the analysis with "failed"; the file is in
\* processed/ and a non-recursive discovery finds nothing.
FailedAnalysisFileMoved ==
    /\ NoDataRecord
    /\ call.mode = "di"
    /\ call.script = "op_failed"
    /\ hist.move = "done"
    /\ LastFileMoved
    /\ discover_local(fs, FALSE) = <<>>

(***************************************************************************)
(* Properties of concurrent requests (checked under SpecConcurrent)        *)
(***************************************************************************)

\* C25: an invocation has at most one file with a remote call in flight, and
\* while the call for the file at position k of its window is in flight the
\* records of the k - 1 files before it, and no other, are in results.
OneFileInFlight ==
    \A c \in Invocations :
        /\ Cardinality(hist.inflight[c]) <= 1
        /\ \A k \in hist.inflight[c] :
              /\ call[c].pc = "awaiting"
              /\ call[c].i = k - 1
              /\ Len(call[c].results) = k - 1
        /\ call[c].pc = "awaiting" => hist.inflight[c] = {call[c].i + 1}

\* C25 witness: both invocations await the remote call of their second file,
\* each with the record of its first file appended.
SecondFilesInFlight ==
    \A c \in Invocations :
        /\ hist.inflight[c] = {2}
        /\ Len(call[c].results) = 1
        /\ Len(call[c].window) = 2

\* C30: with requests running concurrently over one directory no file of a
\* processed directory is ever replaced, and no file is moved more than once.
ConcurrentMovesAreSafe ==
    /\ hist.lost = {}
    /\ \A f \in FileIds : hist.moves[f] <= 1

====
